---- MODULE Spec2Model ----
(***************************************************************************)
(* A model of rewind: the catalog (internal/database/database.go), the     *)
(* snapshot engine and event pipeline (internal/watcher, internal/events)  *)
(* and the purge / rollback / restore / tag commands (cmd).                *)
(*                                                                         *)
(* One project root is modelled.  Paths are project-relative file paths.   *)
(* A file's content is a sequence of bytes; time is in milliseconds.       *)
(***************************************************************************)
EXTENDS Integers, Sequences, FiniteSets, TLC

(***************************************************************************)
(* Bounds of the model.                                                    *)
(***************************************************************************)
NumContents == 2    \* distinct file contents; content i has i bytes
MaxCaptures == 3    \* rows inserted in one run (ids 1..MaxCaptures)
MaxSeconds == 1     \* whole seconds the catalog clock may advance
MaxAgeSeconds == 2  \* the same, where only older-than plans are computed
NumConns == 2       \* IPC connections followed in one run
MaxCtlEvents == 2   \* notifier events of the registered project not yet handled
MaxKeepLast == 2    \* largest --keep-last argument tried
MaxSizeArg == 4     \* largest --max-size argument (bytes) tried
MaxTicks == 2       \* clock advances of TickMs in a run of the event pipeline
MaxQueue == 2       \* events waiting in fsnotify's queue
TickMs == 50        \* granularity of the event pipeline's clock, ms

(***************************************************************************)
(* Program constants.                                                      *)
(***************************************************************************)
MsPerSecond == 1000
DebounceMs == 100
DebounceMapLimit == 1000
DebounceEvictMs == 5000
EventChanCap == 100
IPCChanCap == 100        \* DefaultChannelBuffer of the IPC message channel

Paths == {"a", "b"}
MainPaths == {"a"}    \* the file the command-level specification follows
TagNames == {"stable"}

Content(i) == [j \in 1..i |-> i]
Contents == {Content(i) : i \in 1..NumContents}

(***************************************************************************)
(* Generic helpers.                                                        *)
(***************************************************************************)
Max(S) == CHOOSE x \in S : \A y \in S : y <= x

\* SUM(file_size) over a set of rows.
RECURSIVE SumSize(_)
SumSize(S) ==
  IF S = {} THEN 0
  ELSE LET x == CHOOSE y \in S : TRUE IN x.file_size + SumSize(S \ {x})

\* All sequences that list the elements of S exactly once.
RECURSIVE Perms(_)
Perms(S) ==
  IF S = {} THEN {<<>>}
  ELSE UNION {{<<x>> \o s : s \in Perms(S \ {x})} : x \in S}

\* The result sets an ORDER BY can produce: every listing of S in which no
\* row comes after a row it must precede; rows with equal keys come in any
\* order, as SQL leaves it open.
OrderBy(S, Before(_, _)) ==
  {s \in Perms(S) : \A i, j \in 1..Len(s) : i < j => ~Before(s[j], s[i])}

(***************************************************************************)
(* internal/database/database.go, as functions of the two tables.          *)
(***************************************************************************)

\* SHA-256 of a content, as a collision-free digest: the bytes read as a
\* base-256 numeral (every byte of a content is at least 1).
RECURSIVE CalculateFileHash(_)
CalculateFileHash(c) ==
  IF c = <<>> THEN 0 ELSE Head(c) + 256 * CalculateFileHash(Tail(c))

\* time.Time -> "2006-01-02 15:04:05": the stored timestamp keeps whole
\* seconds only.
FormatTimestamp(t) == t \div MsPerSecond

\* rel/v<N>_<YYYYMMDD_HHMMSS>
CreateStoragePath(p, versionNumber, t) == <<p, versionNumber, FormatTimestamp(t)>>

PathRows(rows, p) == {r \in rows : r.file_path = p}

\* ORDER BY version_number ASC instead of DESC: the oldest row.
GetLatestFileVersionAsc(rows, p) ==
  {r \in PathRows(rows, p) :
     \A q \in PathRows(rows, p) : q.version_number >= r.version_number}

\* The newest row of p as a set: empty when p has no history.
GetLatestFileVersion(rows, p) ==
  {r \in PathRows(rows, p) :
     \A q \in PathRows(rows, p) : q.version_number <= r.version_number}

GetNextVersionNumber(rows, p) ==
  Max({0} \cup {r.version_number : r \in PathRows(rows, p)}) + 1

GetFileVersion(rows, p, n) == {r \in PathRows(rows, p) : r.version_number = n}

\* UNIQUE(file_path, version_number)
InsertAllowed(rows, fv) == GetFileVersion(rows, fv.file_path, fv.version_number) = {}

AddFileVersion(rows, fv) == IF InsertAllowed(rows, fv) THEN rows \cup {fv} ELSE rows

SetLatest(rows, p, del, t) ==
  {IF r \in GetLatestFileVersion(rows, p)
     THEN [r EXCEPT !.deleted = del, !.timestamp = FormatTimestamp(t)]
     ELSE r : r \in rows}

\* MarkFileDeleted whose UPDATE has no version_number in its WHERE.
MarkFileDeletedAllVersions(rows, p, t) ==
  {IF r.file_path = p
     THEN [r EXCEPT !.deleted = TRUE, !.timestamp = FormatTimestamp(t)]
     ELSE r : r \in rows}

MarkFileDeleted(rows, p, t) == SetLatest(rows, p, TRUE, t)

\* RestoreFile's checks without the one of the deleted flag.
RestoreAllowedAnyLatest(rows, p) == GetLatestFileVersion(rows, p) # {}

RestoreAllowed(rows, p) == \E r \in GetLatestFileVersion(rows, p) : r.deleted

\* RestoreFile whose UPDATE leaves the deleted flag as it is.
RestoreFileKeepsFlag(rows, p, t) ==
  IF RestoreAllowed(rows, p) THEN SetLatest(rows, p, TRUE, t) ELSE rows

RestoreFile(rows, p, t) == IF RestoreAllowed(rows, p) THEN SetLatest(rows, p, FALSE, t) ELSE rows

\* SELECT file_path, MAX(version_number), ... WHERE deleted = 1 GROUP BY
\* file_path: per path that has a deleted row, the deleted row with the
\* highest version_number (SQLite takes the bare columns from that row).
GetAllDeletedFiles(rows) ==
  {r \in rows :
     /\ r.deleted
     /\ \A q \in PathRows(rows, r.file_path) :
          q.deleted => q.version_number <= r.version_number}

\* AddTag: the version must exist undeleted; UNIQUE(version_id, tag_name).
TagTargets(rows, p, n) == {r \in GetFileVersion(rows, p, n) : ~r.deleted}

\* AddTag on a tags table without UNIQUE(version_id, tag_name).
AddTagAllowedNoUnique(rows, tgs, p, n, name) == TagTargets(rows, p, n) # {}

AddTagAllowed(rows, tgs, p, n, name) ==
  /\ TagTargets(rows, p, n) # {}
  /\ \A r \in TagTargets(rows, p, n) :
       ~\E t \in tgs : t.version_id = r.id /\ t.tag_name = name

AddTag(rows, tgs, p, n, name, t) ==
  IF AddTagAllowed(rows, tgs, p, n, name)
    THEN tgs \cup {[version_id |-> r.id, tag_name |-> name, created_at |-> FormatTimestamp(t)]
                    : r \in TagTargets(rows, p, n)}
    ELSE tgs

\* GetVersionByTag: the rows the JOIN yields; QueryRow scans the first of
\* them, in an order the query leaves open.
GetVersionByTag(rows, tgs, p, name) ==
  {r \in PathRows(rows, p) :
     ~r.deleted /\ \E t \in tgs : t.version_id = r.id /\ t.tag_name = name}

IsTagged(tgs, r) == \E t \in tgs : t.version_id = r.id

\* The candidate query without its join on tags.
UntaggedLiveNoJoin(rows, tgs) == {r \in rows : ~r.deleted}

\* LEFT JOIN tags ... WHERE v.deleted = 0 AND t.version_id IS NULL
UntaggedLive(rows, tgs) == {r \in rows : ~r.deleted /\ ~IsTagged(tgs, r)}

\* The count query without WHERE deleted = 0.
FileCountAllRows(rows, p) == Cardinality(PathRows(rows, p))

\* SELECT file_path, COUNT(*) FROM versions WHERE deleted = 0 GROUP BY file_path
FileCount(rows, p) == Cardinality({r \in PathRows(rows, p) : ~r.deleted})

\* keep-last with the candidates ordered by version_number ASC.
GetVersionsForPurgeAsc(rows, tgs, keepLast) ==
  UNION {
    LET cand == {r \in UntaggedLive(rows, tgs) : r.file_path = p}
        vs == CHOOSE s \in OrderBy(cand, LAMBDA x, y : x.version_number < y.version_number) : TRUE
    IN IF Len(vs) <= keepLast THEN {}
       ELSE {vs[i].id : i \in (keepLast + 1)..Len(vs)}
    : p \in Paths}

\* keep-last: per path the untagged live rows by version_number DESC; the
\* rows from index keepLast on are purged when there are more than keepLast.
GetVersionsForPurge(rows, tgs, keepLast) ==
  UNION {
    LET cand == {r \in UntaggedLive(rows, tgs) : r.file_path = p}
        vs == CHOOSE s \in OrderBy(cand, LAMBDA x, y : x.version_number > y.version_number) : TRUE
    IN IF Len(vs) <= keepLast THEN {}
       ELSE {vs[i].id : i \in (keepLast + 1)..Len(vs)}
    : p \in Paths}

\* older-than, for one path, with the candidates ordered by timestamp ASC.
PurgeByAgeOfPathAsc(rows, tgs, cutoff, p) ==
  LET cand == {r \in UntaggedLive(rows, tgs) :
                 r.file_path = p /\ r.timestamp < FormatTimestamp(cutoff)}
  IN {IF Len(vs) >= FileCount(rows, p)
        THEN {vs[i].id : i \in 2..Len(vs)}
        ELSE {vs[i].id : i \in 1..Len(vs)}
      : vs \in OrderBy(cand, LAMBDA x, y : x.timestamp < y.timestamp)}

\* older-than, for one path: the untagged live rows older than the cutoff by
\* timestamp DESC; all but the first are purged when they are all the live
\* rows of the path, else all of them.  One result per possible ordering.
PurgeByAgeOfPath(rows, tgs, cutoff, p) ==
  LET cand == {r \in UntaggedLive(rows, tgs) :
                 r.file_path = p /\ r.timestamp < FormatTimestamp(cutoff)}
  IN {IF Len(vs) >= FileCount(rows, p)
        THEN {vs[i].id : i \in 2..Len(vs)}
        ELSE {vs[i].id : i \in 1..Len(vs)}
      : vs \in OrderBy(cand, LAMBDA x, y : x.timestamp > y.timestamp)}

\* The plans older-than can return: one choice per path, united.
GetVersionsForPurgeByAge(rows, tgs, cutoff) ==
  {UNION {f[p] : p \in Paths} :
     f \in {g \in [Paths -> UNION {PurgeByAgeOfPath(rows, tgs, cutoff, q) : q \in Paths}] :
              \A p \in Paths : g[p] \in PurgeByAgeOfPath(rows, tgs, cutoff, p)}}

TotalSize(rows) == SumSize({r \in rows : ~r.deleted})

\* The loop of max-size without its break.
RECURSIVE PurgeBySizeLoopNoBreak(_, _, _, _, _, _)
PurgeBySizeLoopNoBreak(rows, vs, i, removedSize, filesToRemove, sizeToRemove) ==
  IF i > Len(vs) THEN {}
  ELSE LET v == vs[i] IN
    IF filesToRemove[v.file_path] + 1 >= FileCount(rows, v.file_path)
      THEN PurgeBySizeLoopNoBreak(rows, vs, i + 1, removedSize, filesToRemove, sizeToRemove)
      ELSE {v.id} \cup
           PurgeBySizeLoopNoBreak(rows, vs, i + 1, removedSize + v.file_size,
                                  [filesToRemove EXCEPT ![v.file_path] = @ + 1],
                                  sizeToRemove)

\* The greedy loop of max-size over the candidate list vs from index i on.
RECURSIVE PurgeBySizeLoop(_, _, _, _, _, _)
PurgeBySizeLoop(rows, vs, i, removedSize, filesToRemove, sizeToRemove) ==
  IF i > Len(vs) THEN {}
  ELSE LET v == vs[i] IN
    IF filesToRemove[v.file_path] + 1 >= FileCount(rows, v.file_path)
      THEN PurgeBySizeLoop(rows, vs, i + 1, removedSize, filesToRemove, sizeToRemove)
      ELSE {v.id} \cup
           (IF removedSize + v.file_size >= sizeToRemove THEN {}
            ELSE PurgeBySizeLoop(rows, vs, i + 1, removedSize + v.file_size,
                                 [filesToRemove EXCEPT ![v.file_path] = @ + 1],
                                 sizeToRemove))

\* The plans max-size can return, one per possible ordering by timestamp ASC.
GetVersionsForPurgeBySize(rows, tgs, maxSize) ==
  IF TotalSize(rows) <= maxSize THEN {{}}
  ELSE {PurgeBySizeLoop(rows, vs, 1, 0, [p \in Paths |-> 0], TotalSize(rows) - maxSize)
        : vs \in OrderBy(UntaggedLive(rows, tgs), LAMBDA x, y : x.timestamp < y.timestamp)}

\* RemoveVersions: the rows left, and the snapshot files left.
RemoveVersionRows(rows, ids) == {r \in rows : r.id \notin ids}

RemoveVersionFiles(rows, files, ids) ==
  LET gone == {r.storage_path : r \in {q \in rows : q.id \in ids}}
  IN [sp \in (DOMAIN files) \ gone |-> files[sp]]


(***************************************************************************)
(* The capture primitive (watcher.ProcessFile, addFileToDatabase) as a     *)
(* function of the catalog, the snapshot store and the working tree.       *)
(***************************************************************************)

\* copyFile into the store: the snapshot file holds the bytes read from src.
StoreFile(files, sp, c) == [x \in (DOMAIN files) \cup {sp} |-> IF x = sp THEN c ELSE files[x]]

\* os.Remove of a snapshot file.
UnlinkFile(files, sp) == [x \in (DOMAIN files) \ {sp} |-> files[x]]

\* addFileToDatabase with the hash and size ProcessFile computed earlier and
\* the working tree src as it is when the copy runs.
AddFileToDatabase(rows, files, src, p, fileHash, fileSize, id, t) ==
  LET n == GetNextVersionNumber(rows, p)
      sp == CreateStoragePath(p, n, t)
      fv == [id |-> id, file_path |-> p, version_number |-> n,
             timestamp |-> FormatTimestamp(t), file_hash |-> fileHash,
             file_size |-> fileSize, storage_path |-> sp, deleted |-> FALSE]
  IN IF p \notin DOMAIN src
       THEN [ok |-> FALSE, rows |-> rows, files |-> files]
     ELSE IF InsertAllowed(rows, fv)
       THEN [ok |-> TRUE, rows |-> AddFileVersion(rows, fv),
             files |-> StoreFile(files, sp, src[p])]
     ELSE [ok |-> FALSE, rows |-> rows, files |-> UnlinkFile(files, sp)]

\* The comparison of ProcessFile: capture unless the latest row has the hash.
SameAsLatest(rows, p, h) ==
  /\ GetLatestFileVersion(rows, p) # {}
  /\ \A r \in GetLatestFileVersion(rows, p) : r.file_hash = h

\* ProcessFile run without interruption.
ProcessFileOp(rows, files, src, p, id, t) ==
  IF p \notin DOMAIN src
    THEN [result |-> "error", rows |-> rows, files |-> files]
  ELSE IF SameAsLatest(rows, p, CalculateFileHash(src[p]))
    THEN [result |-> "unchanged", rows |-> rows, files |-> files]
  ELSE LET add == AddFileToDatabase(rows, files, src, p,
                                    CalculateFileHash(src[p]), Len(src[p]), id, t)
       IN [result |-> IF ~add.ok THEN "error"
                      ELSE IF GetLatestFileVersion(rows, p) = {} THEN "new"
                      ELSE "updated",
           rows |-> add.rows, files |-> add.files]

(***************************************************************************)
(* State.                                                                  *)
(***************************************************************************)
VARIABLES
  fs,         \* working tree: existing path -> content
  versions,   \* table versions
  tags,       \* table tags
  store,      \* .rewind/versions: storage_path -> content of the snapshot
  nextId,     \* AUTOINCREMENT of versions.id
  now,        \* wall clock, ms
  highWater,  \* history: per path the highest version_number ever assigned
  pg,         \* the purge command: where it is, and its plan
  rb,         \* the rollback command: where it is, and its locals
  fsEvents,   \* fsnotify's Events channel: events not yet read by the notifier
  debounce,   \* EventDebouncer.events: key -> time last admitted, -1 when absent
  chanLen,    \* len(wm.EventChan)
  nw,         \* the notifier goroutine: where it is, and ProcessFile's locals
  sent,       \* history: per path how its sendEvent calls ended so far
  suppressed, \* history: the paths that had an event suppressed by the debouncer
  lastSeen,   \* history: per key the time the debouncer last saw an event, or -1
  admitLog,   \* history: per key the times of the events the debouncer admitted
  dirs,       \* the directories that exist under the project root
  rwignore,   \* the patterns written in <root>/.rwignore
  running,    \* whether the daemon runs
  ignorePatterns,  \* Watch.IgnorePatterns, as loaded by prepareWatch
  watchDirs,  \* Watch.WatchDirs: the directories subscribed with fsnotify
  lateFiles,  \* history: the files created when .rwignore already matched them
  watches,       \* WatchList.Watches: registered path -> its WatchDirs
  watchlistFile, \* watchlist.json: the paths it lists
  subs,          \* fsnotify's watches: <<project, directory>>
  isRunning,     \* the WatchManager's context is not cancelled
  ctlDirs,       \* subdirectories of the project that exist
  ctlEvents,     \* events of the project's directories not yet handled
  handler,       \* handleEvent of the notifier goroutine: where it is
  ctlCatalog,    \* events whose file was captured
  removedDone,   \* history: the last add/remove of the project was a remove
  conns,         \* IPC connections: handleConnection's position, request, writes
  msgChan,       \* IPCClient.messageChan: the followed connections in it
  msgFiller,     \* messages of other connections in messageChan
  cap,           \* the goroutines that capture: ProcessFile's position and locals
  scan,          \* PerformInitialScan: the files its walk has yet to visit
  sd             \* WatchManager.Stop: how far it is, and what it closed

engVars == <<fsEvents, debounce, chanLen, nw, sent, suppressed, lastSeen, admitLog>>

ignVars == <<dirs, rwignore, running, ignorePatterns, watchDirs, lateFiles>>

capVars == <<cap, scan, sd>>

ctlVars == <<watches, watchlistFile, subs, isRunning, ctlDirs, ctlEvents, handler,
             ctlCatalog, removedDone, conns, msgChan, msgFiller, capVars>>
vars == <<fs, versions, tags, store, nextId, now, highWater, pg, rb, engVars, ignVars, ctlVars>>

EmptyFiles == [x \in {} |-> <<>>]
PgIdle == [pc |-> "idle", plan |-> {}]
RbIdle == [pc |-> "idle", path |-> "", version |-> 0, sp |-> <<>>, saved |-> FALSE,
           result |-> "none"]
Ops == {"CREATE", "WRITE", "REMOVE", "RENAME"}
Keys == Paths \X Ops
NwIdle == [pc |-> "idle", path |-> "", hash |-> 0, size |-> 0]
Workers == {"scan", "event"}
CapIdle == [pc |-> "idle", path |-> "", hash |-> 0, size |-> 0, n |-> 0, sp |-> <<>>,
            result |-> "none"]
ScanIdle == [pc |-> "idle", todo |-> <<>>, visited |-> {}, listed |-> {}, cur |-> "", failed |-> {}]
SdRunning == [pc |-> "running", chanClosed |-> FALSE, sentOnClosed |-> FALSE]

InitCommon ==
  /\ fs = EmptyFiles
  /\ versions = {}
  /\ tags = {}
  /\ store = EmptyFiles
  /\ nextId = 1
  /\ now = 0
  /\ highWater = [p \in Paths |-> 0]
  /\ pg = PgIdle
  /\ rb = RbIdle
  /\ fsEvents = <<>>
  /\ debounce = [k \in Keys |-> -1]
  /\ nw = NwIdle
  /\ sent = [p \in Paths |-> "none"]
  /\ suppressed = {}
  /\ lastSeen = [k \in Keys |-> -1]
  /\ admitLog = [k \in Keys |-> <<>>]
  /\ dirs = {}
  /\ rwignore = {}
  /\ running = FALSE
  /\ ignorePatterns = {}
  /\ watchDirs = {}
  /\ lateFiles = {}
  /\ watches = <<>>
  /\ watchlistFile = {}
  /\ subs = {}
  /\ isRunning = TRUE
  /\ ctlDirs = {}
  /\ ctlEvents = <<>>
  /\ handler = [pc |-> "idle"]
  /\ ctlCatalog = {}
  /\ removedDone = FALSE
  /\ conns = [c \in 1..NumConns |-> [pc |-> "none", req |-> <<>>, resp |-> <<>>]]
  /\ msgChan = <<>>
  /\ cap = [w \in Workers |-> CapIdle]
  /\ scan = ScanIdle
  /\ sd = SdRunning

Init == InitCommon /\ chanLen = 0 /\ msgFiller = 0

\* The daemon just started, or after it has sent EventChanCap - 1 events for
\* files that left no trace (sendEvent precedes the ignore check and the
\* stat of the handlers, so events of ignored or vanished files count).
InitEngine == InitCommon /\ chanLen \in {0, EventChanCap - 1} /\ msgFiller = 0

NoteAssigned(rows) ==
  [p \in Paths |-> Max({highWater[p]} \cup {r.version_number : r \in PathRows(rows, p)})]

(***************************************************************************)
(* The user's edits of the working tree.                                   *)
(***************************************************************************)
WriteFile(p, c) ==
  /\ IF p \in DOMAIN fs THEN fs[p] # c ELSE TRUE
  /\ fs' = [x \in (DOMAIN fs) \cup {p} |-> IF x = p THEN c ELSE fs[x]]
  /\ UNCHANGED <<versions, tags, store, nextId, now, highWater, pg, rb, engVars, ignVars, ctlVars>>

DeleteFile(p) ==
  /\ p \in DOMAIN fs
  /\ fs' = [x \in (DOMAIN fs) \ {p} |-> fs[x]]
  /\ UNCHANGED <<versions, tags, store, nextId, now, highWater, pg, rb, engVars, ignVars, ctlVars>>

AdvanceSecond(limit) ==
  /\ now + MsPerSecond <= limit * MsPerSecond
  /\ now' = now + MsPerSecond
  /\ UNCHANGED <<fs, versions, tags, store, nextId, highWater, pg, rb, engVars, ignVars, ctlVars>>

TickSecond == AdvanceSecond(MaxSeconds)

(***************************************************************************)
(* The daemon's handlers, each run without interruption.                   *)
(***************************************************************************)
ProcessFile(p) ==
  /\ p \in DOMAIN fs
  /\ nextId <= MaxCaptures
  /\ LET res == ProcessFileOp(versions, store, fs, p, nextId, now) IN
       /\ versions' = res.rows
       /\ store' = res.files
       /\ nextId' = IF res.rows # versions THEN nextId + 1 ELSE nextId
       /\ highWater' = NoteAssigned(res.rows)
  /\ UNCHANGED <<fs, tags, now, pg, rb, engVars, ignVars, ctlVars>>

\* handleRemove: nothing for a path without history, else MarkFileDeleted.
HandleRemoveRows(rows, p, t) ==
  IF GetLatestFileVersion(rows, p) = {} THEN rows ELSE MarkFileDeleted(rows, p, t)

HandleRemove(p) ==
  /\ GetLatestFileVersion(versions, p) # {}
  /\ versions' = HandleRemoveRows(versions, p, now)
  /\ UNCHANGED <<fs, tags, store, nextId, now, highWater, pg, rb, engVars, ignVars, ctlVars>>


(***************************************************************************)
(* The commands: restore, tag, purge, rollback.                            *)
(***************************************************************************)

\* restoreSpecificFile: RestoreFile, then copyFromStorage of the returned row.
CopyFromStorage(files, tree, sp, p) ==
  IF sp \in DOMAIN files
    THEN [x \in (DOMAIN tree) \cup {p} |-> IF x = p THEN files[sp] ELSE tree[x]]
    ELSE tree

\* restoreSpecificFile as a function: an error of RestoreFile ends it, else
\* the row RestoreFile returns is copied from the store.
RestoreSpecificFile(rows, files, tree, p, t) ==
  IF ~RestoreAllowed(rows, p)
    THEN [ok |-> FALSE, rows |-> rows, tree |-> tree]
    ELSE LET sp == (CHOOSE r \in GetLatestFileVersion(rows, p) : TRUE).storage_path IN
           [ok |-> sp \in DOMAIN files,
            rows |-> RestoreFile(rows, p, t),
            tree |-> CopyFromStorage(files, tree, sp, p)]

Restore(p) ==
  /\ versions' = RestoreSpecificFile(versions, store, fs, p, now).rows
  /\ fs' = RestoreSpecificFile(versions, store, fs, p, now).tree
  /\ UNCHANGED <<tags, store, nextId, now, highWater, pg, rb, engVars, ignVars, ctlVars>>

\* restoreSpecificFile when copyFromStorage returns an error (os.MkdirAll,
\* os.Open of the snapshot or os.Create of the target fails): RestoreFile
\* has run before it, and the working tree is as it was.
RestoreCopyFails(p) ==
  /\ RestoreAllowed(versions, p)
  /\ versions' = RestoreFile(versions, p, now)
  /\ UNCHANGED <<fs, tags, store, nextId, now, highWater, pg, rb, engVars, ignVars, ctlVars>>

\* runTag: --version n, or the latest version when n = 0.
TagVersion(p, n) ==
  IF n > 0 THEN n
  ELSE Max({0} \cup {r.version_number : r \in GetLatestFileVersion(versions, p)})

Tag(p, n, name) ==
  /\ AddTagAllowed(versions, tags, p, TagVersion(p, n), name)
  /\ tags' = AddTag(versions, tags, p, TagVersion(p, n), name, now)
  /\ UNCHANGED <<fs, versions, store, nextId, now, highWater, pg, rb, engVars, ignVars, ctlVars>>

\* The plans runPurge can obtain for a strategy and its argument.
KeepLastArgs == 1..MaxKeepLast
OlderThanArgs == 0..MaxSeconds
MaxSizeArgs == 0..MaxSizeArg

PurgePlans(rows, tgs, strategy, arg, t) ==
  IF strategy = "keep-last" THEN {GetVersionsForPurge(rows, tgs, arg)}
  ELSE IF strategy = "older-than"
    THEN GetVersionsForPurgeByAge(rows, tgs, t - arg * MsPerSecond)
  ELSE GetVersionsForPurgeBySize(rows, tgs, arg)

PurgeArgs(strategy) ==
  IF strategy = "keep-last" THEN KeepLastArgs
  ELSE IF strategy = "older-than" THEN OlderThanArgs
  ELSE MaxSizeArgs

Strategies == {"keep-last", "older-than", "max-size"}

\* runPurge up to its prompt: with --force the plan is applied at once,
\* otherwise the command waits for the answer.  An empty plan ends the run.
PurgeStart(strategy, arg, force) ==
  /\ pg.pc = "idle"
  /\ \E plan \in PurgePlans(versions, tags, strategy, arg, now) :
       /\ plan # {}
       /\ IF force
            THEN /\ versions' = RemoveVersionRows(versions, plan)
                 /\ store' = RemoveVersionFiles(versions, store, plan)
                 /\ pg' = pg
            ELSE /\ pg' = [pc |-> "prompt", plan |-> plan]
                 /\ UNCHANGED <<versions, store>>
  /\ UNCHANGED <<fs, tags, nextId, now, highWater, rb, engVars, ignVars, ctlVars>>

\* The answer is yes: RemoveVersions of the plan computed before the prompt.
PurgeConfirm ==
  /\ pg.pc = "prompt"
  /\ versions' = RemoveVersionRows(versions, pg.plan)
  /\ store' = RemoveVersionFiles(versions, store, pg.plan)
  /\ pg' = PgIdle
  /\ UNCHANGED <<fs, tags, nextId, now, highWater, rb, engVars, ignVars, ctlVars>>

PurgeCancel ==
  /\ pg.pc = "prompt"
  /\ pg' = PgIdle
  /\ UNCHANGED <<fs, versions, tags, store, nextId, now, highWater, rb, engVars, ignVars, ctlVars>>

\* saveCurrentFileAsNewVersion: as addFileToDatabase, but the row's timestamp
\* is the file's modification time mt.
SaveCurrentFileAsNewVersion(rows, files, src, p, id, mt, t) ==
  LET n == GetNextVersionNumber(rows, p)
      sp == CreateStoragePath(p, n, t)
      fv == [id |-> id, file_path |-> p, version_number |-> n,
             timestamp |-> FormatTimestamp(mt), file_hash |-> CalculateFileHash(src[p]),
             file_size |-> Len(src[p]), storage_path |-> sp, deleted |-> FALSE]
  IN IF InsertAllowed(rows, fv)
       THEN [ok |-> TRUE, rows |-> AddFileVersion(rows, fv),
             files |-> StoreFile(files, sp, src[p])]
       ELSE [ok |-> FALSE, rows |-> rows, files |-> UnlinkFile(files, sp)]

\* The sanity checks without check 4 (already at the target version).
RollbackAllowedNoLatestCheck(p, n) ==
  /\ \E r \in GetFileVersion(versions, p, n) : ~r.deleted /\ r.storage_path \in DOMAIN store
  /\ p \in DOMAIN fs

\* The sanity checks 1-7 of performRollback.
RollbackAllowed(p, n) ==
  /\ \E r \in GetFileVersion(versions, p, n) : ~r.deleted /\ r.storage_path \in DOMAIN store
  /\ \A r \in GetLatestFileVersion(versions, p) : r.version_number # n
  /\ p \in DOMAIN fs

\* performRollback without the call of saveCurrentFileAsNewVersion.
RollbackBeginNoSave(p, n) ==
  /\ rb.pc = "idle"
  /\ rb' = IF ~RollbackAllowed(p, n)
             THEN [RbIdle EXCEPT !.path = p, !.version = n, !.result = "error"]
           ELSE [pc |-> "copy", path |-> p, version |-> n,
                 sp |-> (CHOOSE r \in GetFileVersion(versions, p, n) : TRUE).storage_path,
                 saved |-> ~SameAsLatest(versions, p, CalculateFileHash(fs[p])),
                 result |-> "none"]
  /\ UNCHANGED <<fs, versions, tags, store, nextId, now, highWater, pg, engVars, ignVars, ctlVars>>

\* performRollback up to the copy: the checks, then the current file is
\* saved as a new version when its hash differs from the latest row's.
RollbackBegin(p, n) ==
  /\ rb.pc = "idle"
  /\ IF ~RollbackAllowed(p, n)
       THEN /\ rb' = [RbIdle EXCEPT !.path = p, !.version = n, !.result = "error"]
            /\ UNCHANGED <<versions, store, nextId, highWater>>
     ELSE LET target == CHOOSE r \in GetFileVersion(versions, p, n) : TRUE IN
       IF SameAsLatest(versions, p, CalculateFileHash(fs[p]))
         THEN /\ rb' = [pc |-> "copy", path |-> p, version |-> n, sp |-> target.storage_path,
                         saved |-> FALSE, result |-> "none"]
              /\ UNCHANGED <<versions, store, nextId, highWater>>
         ELSE /\ nextId <= MaxCaptures
              /\ \E mt \in {k * MsPerSecond : k \in 0..(now \div MsPerSecond)} :
                   LET res == SaveCurrentFileAsNewVersion(versions, store, fs, p, nextId, mt, now) IN
                     /\ versions' = res.rows
                     /\ store' = res.files
                     /\ nextId' = IF res.ok THEN nextId + 1 ELSE nextId
                     /\ highWater' = NoteAssigned(res.rows)
                     /\ rb' = IF res.ok
                                THEN [pc |-> "copy", path |-> p, version |-> n,
                                      sp |-> target.storage_path, saved |-> TRUE,
                                      result |-> "none"]
                                ELSE [RbIdle EXCEPT !.result = "error"]
  /\ UNCHANGED <<fs, tags, now, pg, engVars, ignVars, ctlVars>>

\* copyFile(storedVersionPath, filePath)
RollbackCopy ==
  /\ rb.pc = "copy"
  /\ IF rb.sp \in DOMAIN store
       THEN /\ fs' = [x \in (DOMAIN fs) \cup {rb.path} |->
                        IF x = rb.path THEN store[rb.sp] ELSE fs[x]]
            /\ rb' = [RbIdle EXCEPT !.result = "ok", !.saved = rb.saved]
       ELSE /\ fs' = fs
            /\ rb' = [RbIdle EXCEPT !.result = "error"]
  /\ UNCHANGED <<versions, tags, store, nextId, now, highWater, pg, engVars, ignVars, ctlVars>>

(***************************************************************************)
(* The event pipeline: fsnotify -> EventsNotifier.handleEvent (debounce)   *)
(* -> WatchManager.sendEvent -> WatchManager.handleEvent -> handlers.      *)
(* All of it runs on the notifier goroutine.                               *)
(***************************************************************************)
Event(p, op) == [name |-> p, op |-> op]

\* ShouldProcess with a window of a tenth of the length.
ShouldProcessShortWindow(events, key, t) ==
  IF events[key] >= 0 /\ t - events[key] < DebounceMs \div 10
    THEN [admit |-> FALSE, events |-> events]
    ELSE [admit |-> TRUE, events |-> [events EXCEPT ![key] = t]]

\* ShouldProcess(filePath, eventType) at time t: whether the event is
\* admitted, and the map afterwards.
ShouldProcess(events, key, t) ==
  IF events[key] >= 0 /\ t - events[key] < DebounceMs
    THEN [admit |-> FALSE, events |-> events]
  ELSE LET e1 == [events EXCEPT ![key] = t] IN
    [admit |-> TRUE,
     events |-> IF Cardinality({k \in DOMAIN e1 : e1[k] >= 0}) > DebounceMapLimit
                  THEN [k \in DOMAIN e1 |->
                          IF e1[k] >= 0 /\ e1[k] < t - DebounceEvictMs THEN -1 ELSE e1[k]]
                  ELSE e1]

\* The user saves, deletes or renames a file; the kernel queues the events.
SaveFile(p, c) ==
  /\ IF p \in DOMAIN fs THEN fs[p] # c ELSE TRUE
  /\ LET evs == IF p \in DOMAIN fs THEN <<Event(p, "WRITE")>>
                ELSE <<Event(p, "CREATE"), Event(p, "WRITE")>>
     IN /\ Len(fsEvents) + Len(evs) <= MaxQueue
        /\ fsEvents' = fsEvents \o evs
  /\ fs' = [x \in (DOMAIN fs) \cup {p} |-> IF x = p THEN c ELSE fs[x]]
  /\ UNCHANGED <<versions, tags, store, nextId, now, highWater, pg, rb,
                 debounce, chanLen, nw, sent, suppressed, lastSeen, admitLog, ignVars, ctlVars>>

RemoveFile(p) ==
  /\ p \in DOMAIN fs
  /\ Len(fsEvents) + 1 <= MaxQueue
  /\ fsEvents' = Append(fsEvents, Event(p, "REMOVE"))
  /\ fs' = [x \in (DOMAIN fs) \ {p} |-> fs[x]]
  /\ UNCHANGED <<versions, tags, store, nextId, now, highWater, pg, rb,
                 debounce, chanLen, nw, sent, suppressed, lastSeen, admitLog, ignVars, ctlVars>>

RenameFile(p, q) ==
  /\ p \in DOMAIN fs
  /\ p # q
  /\ Len(fsEvents) + 2 <= MaxQueue
  /\ fsEvents' = fsEvents \o <<Event(p, "RENAME"), Event(q, "CREATE")>>
  /\ fs' = [x \in ((DOMAIN fs) \ {p}) \cup {q} |-> IF x = q THEN fs[p] ELSE fs[x]]
  /\ UNCHANGED <<versions, tags, store, nextId, now, highWater, pg, rb,
                 debounce, chanLen, nw, sent, suppressed, lastSeen, admitLog, ignVars, ctlVars>>

Tick ==
  /\ now + TickMs <= MaxTicks * TickMs
  /\ now' = now + TickMs
  /\ UNCHANGED <<fs, versions, tags, store, nextId, highWater, pg, rb, engVars, ignVars, ctlVars>>

\* ProcessFile up to the hash: stat and CalculateFileHash of the file as it
\* is now.  A file that is gone ends the call with an error.
ProcessFileBegin(p) ==
  IF p \in DOMAIN fs
    THEN [pc |-> "hashed", path |-> p, hash |-> CalculateFileHash(fs[p]), size |-> Len(fs[p])]
    ELSE NwIdle

\* WatchManager.handleEvent for an event of a watched, not ignored file: what
\* it does to the catalog, and where it leaves the goroutine.
\* handleCreate and handleRename stat the path and give up when it is gone,
\* handleWrite calls ProcessFile, whose own stat does the same.
HandleEventRows(ev) ==
  IF ev.op = "REMOVE" THEN HandleRemoveRows(versions, ev.name, now) ELSE versions

HandleEventNext(ev) ==
  IF ev.op = "REMOVE" THEN NwIdle ELSE ProcessFileBegin(ev.name)

\* sendEvent: the select on EventChan with its default branch.
ChannelHasRoom == chanLen < EventChanCap

NoteSend(p, op, accepted) ==
  [sent EXCEPT ![p] = IF accepted THEN "accepted"
                      ELSE IF @ \in {"dropped", "redropped"} /\ op = "WRITE" THEN "redropped"
                      ELSE "dropped"]

\* The notifier goroutine reads one event: debounce, sendEvent, handleEvent.
NotifierReceive ==
  /\ nw.pc = "idle"
  /\ fsEvents # <<>>
  /\ LET ev == Head(fsEvents)
         sp == ShouldProcess(debounce, <<ev.name, ev.op>>, now)
     IN /\ fsEvents' = Tail(fsEvents)
        /\ debounce' = sp.events
        /\ lastSeen' = [lastSeen EXCEPT ![<<ev.name, ev.op>>] = now]
        /\ admitLog' = IF sp.admit
                         THEN [admitLog EXCEPT ![<<ev.name, ev.op>>] = Append(@, now)]
                         ELSE admitLog
        /\ IF ~sp.admit
             THEN /\ suppressed' = suppressed \cup {ev.name}
                  /\ UNCHANGED <<chanLen, nw, sent, versions>>
           ELSE IF ~ChannelHasRoom
             THEN /\ sent' = NoteSend(ev.name, ev.op, FALSE)
                  /\ UNCHANGED <<chanLen, nw, versions, suppressed>>
           ELSE /\ chanLen' = chanLen + 1
                /\ sent' = NoteSend(ev.name, ev.op, TRUE)
                /\ suppressed' = suppressed
                /\ versions' = HandleEventRows(ev)
                /\ nw' = HandleEventNext(ev)
  /\ UNCHANGED <<fs, tags, store, nextId, now, highWater, pg, rb, ignVars, ctlVars>>

\* The rest of ProcessFile: the latest row is looked up and compared with
\* the hash taken earlier; addFileToDatabase copies the file as it is now.
ProcessFileCommit ==
  /\ nw.pc = "hashed"
  /\ nw' = NwIdle
  /\ IF SameAsLatest(versions, nw.path, nw.hash)
       THEN UNCHANGED <<versions, store, nextId, highWater>>
       ELSE /\ nextId <= MaxCaptures
            /\ LET add == AddFileToDatabase(versions, store, fs, nw.path, nw.hash, nw.size,
                                            nextId, now) IN
                 /\ versions' = add.rows
                 /\ store' = add.files
                 /\ nextId' = IF add.ok THEN nextId + 1 ELSE nextId
                 /\ highWater' = NoteAssigned(add.rows)
  /\ UNCHANGED <<fs, tags, now, pg, rb, fsEvents, debounce, chanLen, sent, suppressed,
                 lastSeen, admitLog, ignVars, ctlVars>>

NextEngine ==
  \/ \E p \in MainPaths, c \in Contents : SaveFile(p, c)
  \/ \E p \in MainPaths : RemoveFile(p)
  \/ \E p \in MainPaths, q \in Paths : RenameFile(p, q)
  \/ Tick
  \/ NotifierReceive
  \/ ProcessFileCommit

SpecEngine == InitEngine /\ [][NextEngine]_vars

\* No event is waiting and no handler is running.
Quiescent == fsEvents = <<>> /\ nw.pc = "idle"

(***************************************************************************)
(* Ignore patterns and watched directories.  A path below the project root *)
(* is the sequence of its components; a component is <<stem, extension>>.  *)
(* A pattern is a sequence of component globs ("*" matches any stem or any *)
(* extension, and never crosses a "/") and whether it ends with "/".       *)
(***************************************************************************)
BuildDir == <<"build", "">>
SrcDir == <<"src", "">>
TmpFile == <<"foo", "tmp">>
TxtFile == <<"a", "txt">>

TreeDirs == {<<BuildDir>>, <<SrcDir>>, <<SrcDir, BuildDir>>}
TreeFiles == {<<TmpFile>>, <<TxtFile>>, <<BuildDir, TxtFile>>, <<SrcDir, BuildDir, TxtFile>>}

\* ".rewind" and ".rewind/*", which loadIgnorePatterns always starts with.
ImplicitPatterns ==
  {[glob |-> <<<<".rewind", "">>>>, dir |-> FALSE],
   [glob |-> <<<<".rewind", "">>, <<"*", "*">>>>, dir |-> FALSE]}

\* "*.tmp", "build/" and "src/build", the lines .rwignore may hold.
PatternChoices ==
  {[glob |-> <<<<"*", "tmp">>>>, dir |-> FALSE],
   [glob |-> <<BuildDir>>, dir |-> TRUE],
   [glob |-> <<SrcDir, BuildDir>>, dir |-> FALSE]}

Parent(path) == SubSeq(path, 1, Len(path) - 1)

\* filepath.Match of a pattern and a slash-separated string.
MatchName(g, n) == (g[1] = "*" \/ g[1] = n[1]) /\ (g[2] = "*" \/ g[2] = n[2])

MatchGlob(glob, rel) ==
  /\ Len(glob) = Len(rel)
  /\ \A i \in 1..Len(glob) : MatchName(glob[i], rel[i])

\* strings.HasPrefix(relPath + "/", pattern) for a pattern ending with "/".
HasPrefix(rel, glob) == Len(glob) <= Len(rel) /\ SubSeq(rel, 1, Len(glob)) = glob

\* ShouldIgnore that tests a file pattern against the base name only.
ShouldIgnoreBaseOnly(rel, patterns) ==
  \E pat \in patterns :
    IF pat.dir
      THEN \/ \E i \in 1..Len(rel) : MatchGlob(pat.glob, <<rel[i]>>)
           \/ HasPrefix(rel, pat.glob)
      ELSE MatchGlob(pat.glob, <<rel[Len(rel)]>>)

\* Watch.ShouldIgnore of the path rel (relative to the root, not the root).
ShouldIgnore(rel, patterns) ==
  \E pat \in patterns :
    IF pat.dir
      THEN \/ \E i \in 1..Len(rel) : MatchGlob(pat.glob, <<rel[i]>>)
           \/ HasPrefix(rel, pat.glob)
      ELSE \/ MatchGlob(pat.glob, <<rel[Len(rel)]>>)
           \/ MatchGlob(pat.glob, rel)
           \/ \E i \in 1..Len(rel) : MatchGlob(pat.glob, <<rel[i]>>)

\* loadIgnorePatterns that starts from an empty list.
LoadIgnorePatternsNoImplicit(lines) == lines

LoadIgnorePatterns(lines) == ImplicitPatterns \cup lines

\* What filepath.WalkDir reaches when every ignored directory is skipped
\* with its subtree: the path and every directory above it are not ignored.
Walked(path, patterns) ==
  \A i \in 1..Len(path) : ~ShouldIgnore(SubSeq(path, 1, i), patterns)

\* .rewind and .rewind/versions, which every initialised project has.
StoreDirs == {<<<<".rewind", "">>>>, <<<<".rewind", "">>, <<"versions", "">>>>}

DiscoverWatchDirectories(ds, patterns) ==
  {d \in ds \cup {<<>>} \cup StoreDirs : Walked(d, patterns)}

\* The events fsnotify produces for a change in directory d.
Notify(d, evs) == IF running /\ d \in watchDirs THEN evs ELSE <<>>

\* The user creates a directory.
Mkdir(d) ==
  /\ d \notin dirs
  /\ Parent(d) \in dirs \cup {<<>>}
  /\ dirs' = dirs \cup {d}
  /\ Len(fsEvents) + 1 <= MaxQueue
  /\ fsEvents' = fsEvents \o Notify(Parent(d), <<Event(d, "CREATE")>>)
  /\ UNCHANGED <<fs, versions, tags, store, nextId, now, highWater, pg, rb,
                 debounce, chanLen, nw, sent, suppressed, lastSeen, admitLog,
                 rwignore, running, ignorePatterns, watchDirs, lateFiles, ctlVars>>

\* The user removes an empty directory.  handleRemove looks the path up
\* in the catalog only; RemoveWatchDirectory has no caller.
Rmdir(d) ==
  /\ d \in dirs
  /\ \A x \in dirs \cup DOMAIN fs : Parent(x) # d
  /\ dirs' = dirs \ {d}
  /\ Len(fsEvents) + 1 <= MaxQueue
  /\ fsEvents' = fsEvents \o Notify(Parent(d), <<Event(d, "REMOVE")>>)
  /\ UNCHANGED <<fs, versions, tags, store, nextId, now, highWater, pg, rb,
                 debounce, chanLen, nw, sent, suppressed, lastSeen, admitLog,
                 rwignore, running, ignorePatterns, watchDirs, lateFiles, ctlVars>>

\* The user saves a file in an existing directory.
TreeSaveFile(f, c) ==
  /\ Parent(f) \in dirs \cup {<<>>}
  /\ IF f \in DOMAIN fs THEN fs[f] # c ELSE TRUE
  /\ Len(fsEvents) + 2 <= MaxQueue
  /\ fsEvents' = fsEvents \o
       Notify(Parent(f), IF f \in DOMAIN fs THEN <<Event(f, "WRITE")>>
                         ELSE <<Event(f, "CREATE"), Event(f, "WRITE")>>)
  /\ fs' = [x \in (DOMAIN fs) \cup {f} |-> IF x = f THEN c ELSE fs[x]]
  /\ lateFiles' = IF f \notin DOMAIN fs /\ ShouldIgnore(f, LoadIgnorePatterns(rwignore))
                    THEN lateFiles \cup {f} ELSE lateFiles
  /\ UNCHANGED <<versions, tags, store, nextId, now, highWater, pg, rb,
                 debounce, chanLen, nw, sent, suppressed, lastSeen, admitLog,
                 dirs, rwignore, running, ignorePatterns, watchDirs, ctlVars>>

\* The user adds a line to <root>/.rwignore.
EditRwignore(pat) ==
  /\ pat \notin rwignore
  /\ rwignore' = rwignore \cup {pat}
  /\ UNCHANGED <<fs, versions, tags, store, nextId, now, highWater, pg, rb, engVars,
                 dirs, running, ignorePatterns, watchDirs, lateFiles, ctlVars>>

\* NewWatchList / prepareWatch and NewWatchManager: the patterns are loaded,
\* the directories discovered and subscribed.
DaemonStart ==
  /\ ~running
  /\ running' = TRUE
  /\ ignorePatterns' = LoadIgnorePatterns(rwignore)
  /\ watchDirs' = DiscoverWatchDirectories(dirs, LoadIgnorePatterns(rwignore))
  /\ UNCHANGED <<fs, versions, tags, store, nextId, now, highWater, pg, rb, engVars,
                 dirs, rwignore, lateFiles, ctlVars>>

DaemonStop ==
  /\ running
  /\ running' = FALSE
  /\ fsEvents' = <<>>
  /\ UNCHANGED <<fs, versions, tags, store, nextId, now, highWater, pg, rb,
                 debounce, chanLen, nw, sent, suppressed, lastSeen, admitLog,
                 dirs, rwignore, ignorePatterns, watchDirs, lateFiles, ctlVars>>

\* ProcessFile of a file of the tree, run without interruption.
TreeProcessFile(f) ==
  IF f \in DOMAIN fs /\ nextId <= MaxCaptures
    THEN LET res == ProcessFileOp(versions, store, fs, f, nextId, now) IN
           /\ versions' = res.rows
           /\ store' = res.files
           /\ nextId' = IF res.rows # versions THEN nextId + 1 ELSE nextId
    ELSE UNCHANGED <<versions, store, nextId>>

\* PerformInitialScan visits one file that its walk reaches.
ScanFile(f) ==
  /\ running
  /\ f \in DOMAIN fs
  /\ Walked(f, ignorePatterns)
  /\ nextId <= MaxCaptures
  /\ TreeProcessFile(f)
  /\ UNCHANGED <<fs, tags, now, highWater, pg, rb, engVars, ignVars, ctlVars>>

\* handleEvent without its ShouldIgnore check.
EventAcceptedAlways(ev) == TRUE

\* WatchManager.handleEvent: the event is handled unless ShouldIgnore.
EventAccepted(ev) == ~ShouldIgnore(ev.name, ignorePatterns)

\* AddWatchDirectory of a directory that exists.
AddWatchDirectory(wd, d, patterns) ==
  IF d \in wd \/ ShouldIgnore(d, patterns) THEN wd ELSE wd \cup {d}

\* An event that passed the debouncer and sendEvent reaches handleEvent:
\* handleCreate subscribes a new directory or captures a new file,
\* handleWrite captures.
TreeHandleEvent ==
  /\ running
  /\ fsEvents # <<>>
  /\ fsEvents' = Tail(fsEvents)
  /\ LET ev == Head(fsEvents) IN
       IF ~EventAccepted(ev)
         THEN UNCHANGED <<versions, store, nextId, watchDirs>>
       ELSE IF ev.name \in dirs
         THEN /\ watchDirs' = IF ev.op = "CREATE"
                                THEN AddWatchDirectory(watchDirs, ev.name, ignorePatterns)
                                ELSE watchDirs
              /\ UNCHANGED <<versions, store, nextId>>
       ELSE /\ TreeProcessFile(ev.name)
            /\ watchDirs' = watchDirs
  /\ UNCHANGED <<fs, tags, now, highWater, pg, rb,
                 debounce, chanLen, nw, sent, suppressed, lastSeen, admitLog,
                 dirs, rwignore, running, ignorePatterns, lateFiles, ctlVars>>

NextIgnore ==
  \/ \E d \in TreeDirs : Mkdir(d)
  \/ \E d \in TreeDirs : Rmdir(d)
  \/ \E f \in TreeFiles : TreeSaveFile(f, Content(1))
  \/ \E pat \in PatternChoices : EditRwignore(pat)
  \/ DaemonStart
  \/ DaemonStop
  \/ \E f \in TreeFiles : ScanFile(f)
  \/ TreeHandleEvent

SpecIgnore == Init /\ [][NextIgnore]_vars

(***************************************************************************)
(* The control plane: the IPC server, processIPCMessage, the registry and  *)
(* the notifier's subscriptions, with handleEvent running beside it.       *)
(***************************************************************************)
ProjectPath == "/pa"
CtlPaths == {"/pa", "/missing", "/file", "/locked", "/plain", "/broken"}
RootDir == "."
SubDir == "sub"

\* What os.Stat, os.ReadDir and the look for .rewind find at a path;
\* "/broken" is a project with a subdirectory that cannot be read.
PathKind(p) ==
  CASE p = "/pa" -> "project"
    [] p = "/broken" -> "bad-subdir"
    [] p = "/missing" -> "missing"
    [] p = "/file" -> "file"
    [] p = "/locked" -> "unreadable"
    [] OTHER -> "no-rewind"

\* validateWatchPath without its look for the .rewind directory.
ValidateWatchPathNoRewind(p) == PathKind(p) \in {"project", "bad-subdir", "no-rewind"}

\* validateWatchPath: exists, is a directory, can be read, holds .rewind.
ValidateWatchPath(p) == PathKind(p) \in {"project", "bad-subdir"}

\* prepareWatch fails without a .rewind directory and when the walk of
\* discoverWatchDirectories meets a directory it cannot read; its WatchDirs
\* are the root and the subdirectories found (no ignore pattern matches
\* here).
PrepareWatchOk(p) == PathKind(p) = "project"

CtlDiscover(ds) == {RootDir} \cup ds

\* WatchList.AddWatch: the in-memory list and the file afterwards.
WatchListAddWatch(mem, file, p, ds) ==
  IF p \in DOMAIN mem \/ p \in file \/ ~ValidateWatchPath(p)
    THEN [ok |-> FALSE, mem |-> mem, file |-> file]
  ELSE IF ~PrepareWatchOk(p)
    THEN [ok |-> FALSE, mem |-> mem, file |-> file \cup {p}]
  ELSE [ok |-> TRUE,
        mem |-> [x \in (DOMAIN mem) \cup {p} |-> IF x = p THEN CtlDiscover(ds) ELSE mem[x]],
        file |-> file \cup {p}]

\* WatchList.RemoveWatch: the lists afterwards and the removed WatchDirs.
WatchListRemoveWatch(mem, file, p) ==
  IF p \notin file
    THEN [ok |-> FALSE, mem |-> mem, file |-> file, dirs |-> {}]
  ELSE IF p \notin DOMAIN mem
    THEN [ok |-> FALSE, mem |-> mem, file |-> file \ {p}, dirs |-> {}]
  ELSE [ok |-> TRUE, mem |-> [x \in (DOMAIN mem) \ {p} |-> mem[x]],
        file |-> file \ {p}, dirs |-> mem[p]]

\* The requests a client may send; <<>> stands for bytes that are no JSON
\* message, "eof" for a client that closes without sending.
Requests ==
  [action : {"add"}, path : CtlPaths]
    \cup [action : {"remove"}, path : {"/pa", "/missing", ""}]
    \cup [action : {"status", "stop", "restart"}, path : {""}]
    \cup [action : {"<garbled>", "<eof>"}, path : {""}]

JsonResponse(ok) == [json |-> TRUE, success |-> ok]
BusyText == [json |-> FALSE, success |-> FALSE]

\* listenLoop accepts a connection; the client's bytes are req.
IPCAccept(c, req) ==
  /\ isRunning
  /\ conns[c].pc = "none"
  /\ conns' = [conns EXCEPT ![c] = [pc |-> "accepted", req |-> req, resp |-> <<>>]]
  /\ UNCHANGED <<fs, versions, tags, store, nextId, now, highWater, pg, rb, engVars, ignVars,
                 watches, watchlistFile, subs, isRunning, ctlDirs, ctlEvents, handler,
                 ctlCatalog, removedDone, msgChan, msgFiller, capVars>>

\* handleConnection up to its wait for responseCh: a read error ends it, a
\* full messageChan gets the text "ERROR: Server busy", otherwise the
\* message is queued and the goroutine waits for a value on responseCh.
IPCHandleConnection(c) ==
  /\ isRunning
  /\ conns[c].pc = "accepted"
  /\ IF conns[c].req.action = "<eof>"
       THEN /\ conns' = [conns EXCEPT ![c].pc = "closed"]
            /\ msgChan' = msgChan
     ELSE IF Len(msgChan) + msgFiller < IPCChanCap
       THEN /\ conns' = [conns EXCEPT ![c].pc = "waiting"]
            /\ msgChan' = Append(msgChan, c)
     ELSE /\ conns' = [conns EXCEPT ![c].pc = "closed", ![c].resp = Append(@, BusyText)]
          /\ msgChan' = msgChan
  /\ UNCHANGED <<fs, versions, tags, store, nextId, now, highWater, pg, rb, engVars, ignVars,
                 watches, watchlistFile, subs, isRunning, ctlDirs, ctlEvents, handler,
                 ctlCatalog, removedDone, msgFiller, capVars>>

\* Handler.Start works off the messages of the connections not followed.
IPCProcessOthers ==
  /\ isRunning
  /\ msgFiller > 0
  /\ msgFiller' = 0
  /\ UNCHANGED <<fs, versions, tags, store, nextId, now, highWater, pg, rb, engVars, ignVars,
                 watches, watchlistFile, subs, isRunning, ctlDirs, ctlEvents, handler,
                 ctlCatalog, removedDone, conns, msgChan, capVars>>

\* processIPCMessage of the oldest queued message: the action is carried
\* out and one JSON response is written on the connection.  Nothing is
\* sent on the message's ResponseCh.
ProcessIPCMessage ==
  /\ isRunning
  /\ msgChan # <<>>
  /\ msgChan' = Tail(msgChan)
  /\ LET c == Head(msgChan)
         req == conns[c].req IN
       IF req.action = "add"
         THEN LET res == WatchListAddWatch(watches, watchlistFile, req.path, ctlDirs) IN
           /\ watches' = res.mem
           /\ watchlistFile' = res.file
           /\ subs' = IF res.ok THEN subs \cup {<<req.path, d>> : d \in res.mem[req.path]}
                      ELSE subs
           /\ removedDone' = IF res.ok /\ req.path = ProjectPath THEN FALSE ELSE removedDone
           /\ handler' = handler
           /\ conns' = [conns EXCEPT ![c].resp = Append(@, JsonResponse(res.ok))]
       ELSE IF req.action = "remove"
         THEN LET res == WatchListRemoveWatch(watches, watchlistFile, req.path) IN
           /\ watches' = res.mem
           /\ watchlistFile' = res.file
           /\ subs' = subs \ {<<req.path, d>> : d \in res.dirs}
           /\ removedDone' = IF res.ok /\ req.path = ProjectPath THEN TRUE ELSE removedDone
           /\ handler' = IF /\ res.ok
                            /\ req.path = ProjectPath
                            /\ handler.pc \in {"found", "appended"}
                           THEN [handler EXCEPT !.orphan = TRUE] ELSE handler
           /\ conns' = [conns EXCEPT ![c].resp = Append(@, JsonResponse(res.ok))]
       ELSE /\ conns' = [conns EXCEPT ![c].resp = Append(@, JsonResponse(req.action = "status"))]
            /\ UNCHANGED <<watches, watchlistFile, subs, removedDone, handler>>
  /\ UNCHANGED <<fs, versions, tags, store, nextId, now, highWater, pg, rb, engVars, ignVars,
                 isRunning, ctlDirs, ctlEvents, ctlCatalog, msgFiller, capVars>>

\* SIGINT or SIGTERM: runWatcher returns and its deferred wm.Stop runs;
\* first it cancels the context.
Signal ==
  /\ isRunning
  /\ isRunning' = FALSE
  /\ sd' = [sd EXCEPT !.pc = "cancelled"]
  /\ UNCHANGED <<fs, versions, tags, store, nextId, now, highWater, pg, rb, engVars, ignVars,
                 watches, watchlistFile, subs, ctlDirs, ctlEvents, handler, ctlCatalog,
                 removedDone, conns, msgChan, msgFiller, cap, scan>>

\* Stop: EventsNotifier.Close.
StopCloseNotifier ==
  /\ sd.pc = "cancelled"
  /\ sd' = [sd EXCEPT !.pc = "notifierClosed"]
  /\ subs' = {}
  /\ ctlEvents' = <<>>
  /\ UNCHANGED <<fs, versions, tags, store, nextId, now, highWater, pg, rb, engVars, ignVars,
                 watches, watchlistFile, isRunning, ctlDirs, handler, ctlCatalog,
                 removedDone, conns, msgChan, msgFiller, cap, scan>>

\* Stop: close(wm.EventChan); wg.Wait follows.
StopCloseChan ==
  /\ sd.pc = "notifierClosed"
  /\ sd' = [sd EXCEPT !.pc = "chanClosed", !.chanClosed = TRUE]
  /\ UNCHANGED <<fs, versions, tags, store, nextId, now, highWater, pg, rb, engVars, ignVars,
                 watches, watchlistFile, subs, isRunning, ctlDirs, ctlEvents, handler,
                 ctlCatalog, removedDone, conns, msgChan, msgFiller, cap, scan>>

CtlEvent(kind, d) == [kind |-> kind, dir |-> d, late |-> removedDone]

\* The user creates the subdirectory of the project.
CtlMkdir ==
  /\ SubDir \notin ctlDirs
  /\ ctlDirs' = ctlDirs \cup {SubDir}
  /\ Len(ctlEvents) < MaxCtlEvents
  /\ ctlEvents' = IF <<ProjectPath, RootDir>> \in subs
                    THEN Append(ctlEvents, CtlEvent("dir", SubDir)) ELSE ctlEvents
  /\ UNCHANGED <<fs, versions, tags, store, nextId, now, highWater, pg, rb, engVars, ignVars,
                 watches, watchlistFile, subs, isRunning, handler, ctlCatalog, removedDone,
                 conns, msgChan, msgFiller, capVars>>

\* The user saves a file in a directory of the project that is subscribed.
CtlSaveFile(d) ==
  /\ d \in {RootDir} \cup ctlDirs
  /\ <<ProjectPath, d>> \in subs
  /\ Len(ctlEvents) < MaxCtlEvents
  /\ ctlEvents' = Append(ctlEvents, CtlEvent("file", d))
  /\ UNCHANGED <<fs, versions, tags, store, nextId, now, highWater, pg, rb, engVars, ignVars,
                 watches, watchlistFile, subs, isRunning, ctlDirs, handler, ctlCatalog,
                 removedDone, conns, msgChan, msgFiller, capVars>>

\* EventsNotifier.Start takes an event from fsnotify's channel and
\* EventsNotifier.handleEvent calls the callback, sendEvent.
CtlReceive ==
  /\ handler.pc = "idle"
  /\ ctlEvents # <<>>
  /\ ctlEvents' = Tail(ctlEvents)
  /\ handler' = [pc |-> "callback", ev |-> Head(ctlEvents)]
  /\ UNCHANGED <<fs, versions, tags, store, nextId, now, highWater, pg, rb, engVars, ignVars,
                 watches, watchlistFile, subs, isRunning, ctlDirs, ctlCatalog, removedDone,
                 conns, msgChan, msgFiller, capVars>>

\* sendEvent's select and handleEvent up to its switch.  With the context
\* cancelled the select may take the branch of ctx.Done (viaDone); a send
\* on the closed EventChan is a case the select may take as well.  After
\* a send FindByPath looks the project up in the registry and yields the
\* pointer to its Watch, or the event is dropped.
CtlHandleEventBegin(viaDone) ==
  /\ handler.pc = "callback"
  /\ viaDone => ~isRunning
  /\ IF viaDone
       THEN /\ handler' = [pc |-> "idle"]
            /\ sd' = sd
     ELSE IF sd.chanClosed
       THEN /\ handler' = [pc |-> "panicked"]
            /\ sd' = [sd EXCEPT !.sentOnClosed = TRUE]
     ELSE /\ handler' = IF ProjectPath \in DOMAIN watches
                          THEN [pc |-> "found", ev |-> handler.ev,
                                dirs |-> watches[ProjectPath], orphan |-> FALSE]
                          ELSE [pc |-> "idle"]
          /\ sd' = sd
  /\ UNCHANGED <<fs, versions, tags, store, nextId, now, highWater, pg, rb, engVars, ignVars,
                 watches, watchlistFile, subs, isRunning, ctlDirs, ctlEvents, ctlCatalog,
                 removedDone, conns, msgChan, msgFiller, cap, scan>>

\* The rest of handleEvent on the Watch it holds: an event of a file is
\* captured; handleCreate of a directory calls AddWatchDirectory, which
\* returns for a directory already in watch.WatchDirs and else appends it.
\* A Watch that was removed from the registry meanwhile is no longer the
\* registry's.
CtlHandleEventFinish ==
  /\ handler.pc = "found"
  /\ IF handler.ev.kind = "dir"
       THEN /\ handler' = IF handler.ev.dir \in handler.dirs THEN [pc |-> "idle"]
                          ELSE [handler EXCEPT !.pc = "appended"]
            /\ watches' = IF \/ handler.ev.dir \in handler.dirs
                             \/ handler.orphan
                             \/ ProjectPath \notin DOMAIN watches
                            THEN watches
                            ELSE [watches EXCEPT ![ProjectPath] = @ \cup {handler.ev.dir}]
            /\ ctlCatalog' = ctlCatalog
       ELSE /\ handler' = [pc |-> "idle"]
            /\ ctlCatalog' = ctlCatalog \cup {handler.ev}
            /\ watches' = watches
  /\ UNCHANGED <<fs, versions, tags, store, nextId, now, highWater, pg, rb, engVars, ignVars,
                 watchlistFile, subs, isRunning, ctlDirs, ctlEvents, removedDone,
                 conns, msgChan, msgFiller, capVars>>

\* AddWatchDirectory after its append: EventsNotifier.AddPath subscribes
\* the directory; on a closed notifier it fails and the append is undone.
CtlAddPath ==
  /\ handler.pc = "appended"
  /\ handler' = [pc |-> "idle"]
  /\ IF sd.pc \in {"notifierClosed", "chanClosed"}
       THEN /\ subs' = subs
            /\ watches' = IF handler.orphan \/ ProjectPath \notin DOMAIN watches THEN watches
                          ELSE [watches EXCEPT ![ProjectPath] = @ \ {handler.ev.dir}]
       ELSE /\ subs' = subs \cup {<<ProjectPath, handler.ev.dir>>}
            /\ watches' = watches
  /\ UNCHANGED <<fs, versions, tags, store, nextId, now, highWater, pg, rb, engVars, ignVars,
                 watchlistFile, isRunning, ctlDirs, ctlEvents, ctlCatalog, removedDone,
                 conns, msgChan, msgFiller, capVars>>

NextControl ==
  \/ \E c \in 1..NumConns, req \in Requests : IPCAccept(c, req)
  \/ \E c \in 1..NumConns : IPCHandleConnection(c)
  \/ IPCProcessOthers
  \/ ProcessIPCMessage
  \/ Signal
  \/ StopCloseNotifier
  \/ StopCloseChan
  \/ CtlMkdir
  \/ \E d \in {RootDir, SubDir} : CtlSaveFile(d)
  \/ CtlReceive
  \/ \E viaDone \in BOOLEAN : CtlHandleEventBegin(viaDone)
  \/ CtlHandleEventFinish
  \/ CtlAddPath

\* The daemon runs with an empty watchlist; messageChan is empty or one
\* short of full with the messages of other clients.
InitControl == InitCommon /\ chanLen = 0 /\ msgFiller \in {0, IPCChanCap - 1}

SpecControl == InitControl /\ [][NextControl]_vars

(***************************************************************************)
(* Captures that run side by side.  WatchManager.Start starts the notifier *)
(* goroutine and then runs PerformInitialScan itself, so ProcessFile may   *)
(* run on both at once; each call opens its own database connection and    *)
(* every statement is a transaction of its own.  The runs followed here    *)
(* lie within one second of the clock.                                     *)
(***************************************************************************)
ScanOrder == <<"a", "b">>

\* The entries of the root directory as filepath.WalkDir lists them.
RECURSIVE Listing(_, _)
Listing(order, present) ==
  IF order = <<>> THEN <<>>
  ELSE IF Head(order) \in present THEN <<Head(order)>> \o Listing(Tail(order), present)
  ELSE Listing(Tail(order), present)

\* The snapshot file as a copy that failed half-way leaves it.
PartialCopy == <<>>

\* PerformInitialScan enters the project root and reads its entries.
ScanStart ==
  /\ scan.pc = "idle"
  /\ DOMAIN fs # {}
  /\ scan' = [ScanIdle EXCEPT !.pc = "walking", !.todo = Listing(ScanOrder, DOMAIN fs),
                              !.listed = DOMAIN fs]
  /\ UNCHANGED <<fs, versions, tags, store, nextId, now, highWater, pg, rb, engVars, ignVars,
                 watches, watchlistFile, subs, isRunning, ctlDirs, ctlEvents, handler,
                 ctlCatalog, removedDone, conns, msgChan, msgFiller, cap, sd>>

\* ProcessFile returns; its locals are gone.
CapReturn(result) == [CapIdle EXCEPT !.result = result]

\* ProcessFile up to the hash: os.Stat and CalculateFileHash.
CapStat(w, p) ==
  IF p \in DOMAIN fs
    THEN [CapIdle EXCEPT !.pc = "hashed", !.path = p,
                         !.hash = CalculateFileHash(fs[p]), !.size = Len(fs[p])]
    ELSE CapReturn("error-stat")

\* The results with which ProcessFile returns an error.
CapErrors == {"error-stat", "error-copy", "error-insert"}

\* The entries left to a walk that stops at the first failed ProcessFile.
WalkStopOnError(result, todo) == IF result \in CapErrors THEN <<>> ELSE todo

\* The entries left to the walk after ProcessFile returned: the callback
\* of PerformInitialScan logs an error and returns nil.
WalkContinue(result, todo) == todo

\* The paths logged as "Failed to process file during scan".
ScanLogged ==
  IF cap["scan"].result \in CapErrors THEN scan.failed \cup {scan.cur} ELSE scan.failed

\* The walk calls ProcessFile for its next entry.
ScanVisit ==
  /\ scan.pc = "walking"
  /\ cap["scan"].pc = "idle"
  /\ LET todo == WalkContinue(cap["scan"].result, scan.todo) IN
       /\ todo # <<>>
       /\ scan' = [scan EXCEPT !.todo = Tail(todo), !.visited = @ \cup {Head(todo)},
                               !.cur = Head(todo), !.failed = ScanLogged]
  /\ cap' = [cap EXCEPT !["scan"] = CapStat("scan", Head(scan.todo))]
  /\ UNCHANGED <<fs, versions, tags, store, nextId, now, highWater, pg, rb, engVars, ignVars,
                 watches, watchlistFile, subs, isRunning, ctlDirs, ctlEvents, handler,
                 ctlCatalog, removedDone, conns, msgChan, msgFiller, sd>>

\* The walk has no entry left: PerformInitialScan returns.
ScanFinish ==
  /\ scan.pc = "walking"
  /\ cap["scan"].pc = "idle"
  /\ WalkContinue(cap["scan"].result, scan.todo) = <<>>
  /\ scan' = [scan EXCEPT !.pc = "done", !.todo = <<>>, !.failed = ScanLogged]
  /\ UNCHANGED <<fs, versions, tags, store, nextId, now, highWater, pg, rb, engVars, ignVars,
                 watches, watchlistFile, subs, isRunning, ctlDirs, ctlEvents, handler,
                 ctlCatalog, removedDone, conns, msgChan, msgFiller, cap, sd>>

\* The notifier goroutine's handler calls ProcessFile for an event of p.
EventVisit(p) ==
  /\ cap["event"].pc = "idle"
  /\ cap' = [cap EXCEPT !["event"] = CapStat("event", p)]
  /\ UNCHANGED <<fs, versions, tags, store, nextId, now, highWater, pg, rb, engVars, ignVars,
                 watches, watchlistFile, subs, isRunning, ctlDirs, ctlEvents, handler,
                 ctlCatalog, removedDone, conns, msgChan, msgFiller, scan, sd>>

\* ProcessFile: GetLatestFileVersion and the comparison of the hashes.
CapCompare(w) ==
  /\ cap[w].pc = "hashed"
  /\ cap' = [cap EXCEPT ![w] =
       IF SameAsLatest(versions, cap[w].path, cap[w].hash)
         THEN CapReturn("unchanged")
         ELSE [@ EXCEPT !.pc = "adding",
                        !.result = IF GetLatestFileVersion(versions, cap[w].path) = {}
                                     THEN "new" ELSE "updated"]]
  /\ UNCHANGED <<fs, versions, tags, store, nextId, now, highWater, pg, rb, engVars, ignVars,
                 watches, watchlistFile, subs, isRunning, ctlDirs, ctlEvents, handler,
                 ctlCatalog, removedDone, conns, msgChan, msgFiller, scan, sd>>

\* addFileToDatabase: GetNextVersionNumber and CreateStoragePath.
CapNextNumber(w) ==
  /\ cap[w].pc = "adding"
  /\ LET n == GetNextVersionNumber(versions, cap[w].path) IN
       cap' = [cap EXCEPT ![w].pc = "numbered", ![w].n = n,
                          ![w].sp = CreateStoragePath(cap[w].path, n, now)]
  /\ UNCHANGED <<fs, versions, tags, store, nextId, now, highWater, pg, rb, engVars, ignVars,
                 watches, watchlistFile, subs, isRunning, ctlDirs, ctlEvents, handler,
                 ctlCatalog, removedDone, conns, msgChan, msgFiller, scan, sd>>

\* addFileToDatabase: copyFile.  The source may be gone (no snapshot file
\* is created); io.Copy or Sync may fail after os.Create made the file.
CapCopy(w, copied) ==
  /\ cap[w].pc = "numbered"
  /\ IF cap[w].path \notin DOMAIN fs
       THEN /\ cap' = [cap EXCEPT ![w] = CapReturn("error-copy")]
            /\ store' = store
     ELSE IF ~copied
       THEN /\ cap' = [cap EXCEPT ![w] = CapReturn("error-copy")]
            /\ store' = StoreFile(store, cap[w].sp, PartialCopy)
     ELSE /\ cap' = [cap EXCEPT ![w].pc = "copied"]
          /\ store' = StoreFile(store, cap[w].sp, fs[cap[w].path])
  /\ UNCHANGED <<fs, versions, tags, nextId, now, highWater, pg, rb, engVars, ignVars,
                 watches, watchlistFile, subs, isRunning, ctlDirs, ctlEvents, handler,
                 ctlCatalog, removedDone, conns, msgChan, msgFiller, scan, sd>>

\* addFileToDatabase: AddFileVersion, and os.Remove of the snapshot file
\* when the INSERT fails on UNIQUE(file_path, version_number).
CapInsert(w) ==
  /\ cap[w].pc = "copied"
  /\ LET fv == [id |-> nextId, file_path |-> cap[w].path, version_number |-> cap[w].n,
                timestamp |-> FormatTimestamp(now), file_hash |-> cap[w].hash,
                file_size |-> cap[w].size, storage_path |-> cap[w].sp, deleted |-> FALSE] IN
       IF InsertAllowed(versions, fv)
         THEN /\ nextId <= MaxCaptures
              /\ versions' = AddFileVersion(versions, fv)
              /\ nextId' = nextId + 1
              /\ highWater' = NoteAssigned(versions')
              /\ store' = store
              /\ cap' = [cap EXCEPT ![w] = CapReturn(cap[w].result)]
         ELSE /\ store' = UnlinkFile(store, cap[w].sp)
              /\ cap' = [cap EXCEPT ![w] = CapReturn("error-insert")]
              /\ UNCHANGED <<versions, nextId, highWater>>
  /\ UNCHANGED <<fs, tags, now, pg, rb, engVars, ignVars,
                 watches, watchlistFile, subs, isRunning, ctlDirs, ctlEvents, handler,
                 ctlCatalog, removedDone, conns, msgChan, msgFiller, scan, sd>>

NextCapture ==
  \/ \E p \in MainPaths, c \in Contents : WriteFile(p, c)
  \/ \E p \in Paths \ MainPaths : WriteFile(p, Content(1))
  \/ \E p \in MainPaths : DeleteFile(p)
  \/ ScanStart
  \/ ScanVisit
  \/ ScanFinish
  \/ \E p \in MainPaths : EventVisit(p)
  \/ \E w \in Workers : CapCompare(w)
  \/ \E w \in Workers : CapNextNumber(w)
  \/ \E w \in Workers, copied \in BOOLEAN : CapCopy(w, copied)
  \/ \E w \in Workers : CapInsert(w)

SpecCapture == Init /\ [][NextCapture]_vars

\* The catalog and the commands, for one file.
Next ==
  \/ \E p \in MainPaths, c \in Contents : WriteFile(p, c)
  \/ \E p \in MainPaths : DeleteFile(p)
  \/ TickSecond
  \/ \E p \in MainPaths : ProcessFile(p)
  \/ \E p \in MainPaths : HandleRemove(p)
  \/ \E p \in MainPaths : Restore(p)
  \/ \E p \in MainPaths : RestoreCopyFails(p)
  \/ \E p \in MainPaths, n \in 0..MaxCaptures, name \in TagNames : Tag(p, n, name)
  \/ \E s \in Strategies : \E arg \in PurgeArgs(s), force \in BOOLEAN : PurgeStart(s, arg, force)
  \/ PurgeConfirm
  \/ PurgeCancel

Spec == Init /\ [][Next]_vars

\* The rollback command next to the edits, captures and purges of its file.
NextRollback ==
  \/ \E p \in MainPaths, c \in Contents : WriteFile(p, c)
  \/ \E p \in MainPaths : DeleteFile(p)
  \/ TickSecond
  \/ \E p \in MainPaths : ProcessFile(p)
  \/ \E p \in MainPaths : HandleRemove(p)
  \/ \E s \in Strategies : \E arg \in PurgeArgs(s) : PurgeStart(s, arg, TRUE)
  \/ \E p \in MainPaths, n \in 1..MaxCaptures : RollbackBegin(p, n)
  \/ RollbackCopy

SpecRollback == Init /\ [][NextRollback]_vars

\* The retention planner over the catalogs two files can build.
NextPlan ==
  \/ \E p \in Paths, c \in Contents : WriteFile(p, c)
  \/ TickSecond
  \/ \E p \in Paths : ProcessFile(p)
  \/ \E p \in Paths : HandleRemove(p)
  \/ \E p \in Paths, n \in 0..MaxCaptures, name \in TagNames : Tag(p, n, name)
  \/ \E s \in Strategies : \E arg \in PurgeArgs(s) : PurgeStart(s, arg, TRUE)

SpecPlan == Init /\ [][NextPlan]_vars

\* The catalog under captures, tombstones, tags and purge --older-than over
\* a longer stretch of time.
NextAge ==
  \/ \E p \in Paths, c \in Contents : WriteFile(p, c)
  \/ AdvanceSecond(MaxAgeSeconds)
  \/ \E p \in Paths : ProcessFile(p)
  \/ \E p \in Paths : HandleRemove(p)
  \/ \E p \in Paths, n \in 0..MaxCaptures, name \in TagNames : Tag(p, n, name)
  \/ \E arg \in OlderThanArgs : PurgeStart("older-than", arg, TRUE)

SpecAge == Init /\ [][NextAge]_vars


(***************************************************************************)
(* Properties.                                                             *)
(***************************************************************************)

\* C1: at every quiescent point, every row with deleted = false has its
\* snapshot file in the store, and the file's hash and length are the row's
\* file_hash and file_size -- also when the tracked file is modified between
\* ProcessFile's hash and addFileToDatabase's copy.
C1_SnapshotMatchesRow ==
  Quiescent =>
    \A r \in versions :
      ~r.deleted =>
        /\ r.storage_path \in DOMAIN store
        /\ CalculateFileHash(store[r.storage_path]) = r.file_hash
        /\ Len(store[r.storage_path]) = r.file_size

\* C2: a capture never assigns a version_number that the file_path was
\* assigned before: every row a step inserts has a version_number above all
\* numbers ever assigned to its path, whatever mark_deleted, restore and
\* purge did in between.
C2_VersionNumbersNeverReassigned ==
  [][\A r \in versions' :
       r.id \notin {q.id : q \in versions} => r.version_number > highWater[r.file_path]]_vars

C4_NoTaggedVersionInPlan ==
  \A s \in Strategies : \A arg \in PurgeArgs(s) :
    \A plan \in PurgePlans(versions, tags, s, arg, now) :
      \A r \in versions : r.id \in plan => ~IsTagged(tags, r)

\* C4 witness: a file has a tagged version, and every strategy has a plan
\* that removes another version of that file.
C4_Witness ==
  \E r \in versions :
    /\ IsTagged(tags, r)
    /\ \A s \in Strategies : \E arg \in PurgeArgs(s) :
         \E plan \in PurgePlans(versions, tags, s, arg, now) :
           \E q \in versions : q.file_path = r.file_path /\ q.id \in plan

\* C5: for every plan of every strategy, the set of file_paths that have a
\* row with deleted = false is the same after the plan's rows are removed.
C5_PlanKeepsLivePaths ==
  \A s \in Strategies : \A arg \in PurgeArgs(s) :
    \A plan \in PurgePlans(versions, tags, s, arg, now) :
      {r.file_path : r \in {q \in RemoveVersionRows(versions, plan) : ~q.deleted}}
        = {r.file_path : r \in {q \in versions : ~q.deleted}}

\* C5 witness: a file has a tombstoned row and a tagged row, and a
\* non-empty plan removes versions of it.
C5_Witness ==
  \E p \in Paths :
    /\ \E r \in PathRows(versions, p) : r.deleted
    /\ \E r \in PathRows(versions, p) : IsTagged(tags, r)
    /\ \E s \in Strategies : \E arg \in PurgeArgs(s) :
         \E plan \in PurgePlans(versions, tags, s, arg, now) :
           \E q \in PathRows(versions, p) : q.id \in plan

\* C6: no step of a purge removes a version that has a tag when it is
\* removed, also when the tag was added between the computation of the plan
\* and RemoveVersions.
C6_PurgeNeverDeletesTagged ==
  [][\A r \in versions :
       r.id \notin {q.id : q \in versions'} => ~IsTagged(tags, r)]_vars

\* C7: when every event of a path was handled (none suppressed, none
\* dropped, none waiting), the latest row of the path has deleted = true
\* exactly when the file is absent from the working tree.
C7_DeletedFlagTracksPresence ==
  Quiescent =>
    \A p \in Paths :
      (p \notin suppressed /\ sent[p] \in {"none", "accepted"}) =>
        \A r \in GetLatestFileVersion(versions, p) : r.deleted <=> p \notin DOMAIN fs

\* C8: when the pipeline has come to rest and no event of the file was
\* dropped at the full channel, a file that exists and whose saves were seen
\* has the hash of its content in its latest row -- also when one of its
\* saves fell into the debounce window of an earlier event.
C8_FinalContentCaptured ==
  Quiescent =>
    \A p \in MainPaths :
      (p \in DOMAIN fs /\ sent[p] = "accepted") =>
        /\ GetLatestFileVersion(versions, p) # {}
        /\ \A r \in GetLatestFileVersion(versions, p) :
             r.file_hash = CalculateFileHash(fs[p])

\* C9: the channel does not stay full: after an event of a path was dropped
\* at the full channel, a later WRITE of the path that reaches sendEvent is
\* accepted, never dropped again.
C9_WriteAfterDropAccepted ==
  \A p \in Paths : sent[p] # "redropped"

\* C10: a rollback to version N that finds the file's hash different from
\* the latest row's inserts, before the file is touched, a new row with the
\* next version number holding the current content; the copy then takes the
\* snapshot of version N, and after a successful rollback the file's bytes
\* are that snapshot's.
C10_RollbackSavesThenOverwrites ==
  [][/\ (rb.pc = "idle" /\ rb'.pc = "copy") =>
          /\ fs' = fs
          /\ \E t \in GetFileVersion(versions', rb'.path, rb'.version) :
               rb'.sp = t.storage_path
          /\ ~SameAsLatest(versions, rb'.path, CalculateFileHash(fs[rb'.path])) =>
               \E r \in versions' :
                 /\ r.id \notin {q.id : q \in versions}
                 /\ r.file_path = rb'.path
                 /\ r.version_number = GetNextVersionNumber(versions, rb'.path)
                 /\ r.file_hash = CalculateFileHash(fs[rb'.path])
                 /\ r.storage_path \in DOMAIN store'
                 /\ store'[r.storage_path] = fs[rb'.path]
     /\ (rb.pc = "copy" /\ rb'.result = "ok") =>
          /\ versions' = versions
          /\ rb.sp \in DOMAIN store
          /\ fs'[rb.path] = store[rb.sp]]_vars

\* C10 witness: a rollback that had to save the current content has ended
\* well, and the file holds other bytes than the row saved for it.
C10_Witness ==
  /\ rb.result = "ok"
  /\ rb.saved
  /\ \E p \in MainPaths :
       /\ p \in DOMAIN fs
       /\ \E r \in GetLatestFileVersion(versions, p) : r.file_hash # CalculateFileHash(fs[p])

C12_AllDeletedIsLatestDeleted ==
  /\ \A p \in Paths :
       Cardinality({r \in GetAllDeletedFiles(versions) : r.file_path = p}) =
         IF \E r \in GetLatestFileVersion(versions, p) : r.deleted THEN 1 ELSE 0

\* C13: with the patterns the daemon has loaded for the project, no event
\* and no scan inserts a row for a path the patterns match or for a path
\* below a directory they match, and no subscribed directory is matched or
\* lies below a matched directory.
C13_IgnoredPathsLeaveNoTrace ==
  [][/\ \A r \in versions' :
          r.id \notin {q.id : q \in versions} => Walked(r.file_path, ignorePatterns)
     /\ \A d \in watchDirs' : Walked(d, ignorePatterns')]_vars

\* C13 witness: the daemon runs with "*.tmp" and "build/" loaded and has
\* handled all events; foo.tmp and a file in build/ exist without a row,
\* build/ is not subscribed, and a.txt beside them was captured.
C13_Witness ==
  /\ running
  /\ fsEvents = <<>>
  /\ ShouldIgnore(<<TmpFile>>, ignorePatterns)
  /\ ShouldIgnore(<<BuildDir>>, ignorePatterns)
  /\ {<<TmpFile>>, <<BuildDir, TxtFile>>, <<TxtFile>>} \subseteq DOMAIN fs
  /\ PathRows(versions, <<TmpFile>>) = {}
  /\ PathRows(versions, <<BuildDir, TxtFile>>) = {}
  /\ PathRows(versions, <<TxtFile>>) # {}
  /\ <<BuildDir>> \notin watchDirs
  /\ <<>> \in watchDirs
  /\ lateFiles = {}

\* C14: a file created after a pattern that matches it was added to
\* <root>/.rwignore gets no catalog row, also when the daemon was already
\* watching the project when the pattern was added.
C14_LatePatternIgnored ==
  \A r \in versions : r.file_path \notin lateFiles

\* C15: for every (path, event kind) key, any two events the debouncer
\* admitted are at least 100 ms apart.
C15_AdmittedEventsApart ==
  \A k \in Keys :
    \A i, j \in 1..Len(admitLog[k]) :
      i < j => admitLog[k][j] - admitLog[k][i] >= DebounceMs

\* C15 witness: a key had an event admitted, one suppressed inside the
\* window, and a later one admitted.
C15_Witness ==
  \E k \in Keys :
    /\ Len(admitLog[k]) >= 2
    /\ k[1] \in suppressed

\* C16: the debouncer admits an event only if the last event it saw for the
\* same key, admitted or suppressed, lies at least 100 ms back.
C16_AdmittedOnlyAfterQuietWindow ==
  [][\A k \in Keys :
       Len(admitLog'[k]) > Len(admitLog[k]) =>
         (lastSeen[k] = -1 \/ now - lastSeen[k] >= DebounceMs)]_vars

\* C17: keep-last(N), N >= 1, plans for each file exactly its untagged
\* non-deleted versions that have at least N such versions of the file with
\* a higher version_number, hence nothing for a file with at most N of them.
C17_KeepLastPlan ==
  \A n \in KeepLastArgs :
    GetVersionsForPurge(versions, tags, n) =
      {r.id : r \in {q \in versions :
         /\ ~q.deleted
         /\ ~IsTagged(tags, q)
         /\ Cardinality({x \in versions :
               /\ x.file_path = q.file_path
               /\ ~x.deleted
               /\ ~IsTagged(tags, x)
               /\ x.version_number > q.version_number}) >= n}}

\* C17 witness: a file has v1 tagged, v2 and v3 untagged, all live, and
\* keep-last(1) plans v2 only.
C17_Witness ==
  \E p \in Paths :
    \E r1, r2, r3 \in PathRows(versions, p) :
      /\ r1.version_number = 1 /\ r2.version_number = 2 /\ r3.version_number = 3
      /\ ~r1.deleted /\ ~r2.deleted /\ ~r3.deleted
      /\ IsTagged(tags, r1) /\ ~IsTagged(tags, r2) /\ ~IsTagged(tags, r3)
      /\ {r.id : r \in {q \in PathRows(versions, p) : q.id \in GetVersionsForPurge(versions, tags, 1)}}
           = {r2.id}

\* The untagged non-deleted versions of file p with a timestamp before the
\* cutoff of older-than(arg) at the current time.
C18_Candidates(p, arg) ==
  {r \in PathRows(versions, p) :
     /\ ~r.deleted
     /\ ~IsTagged(tags, r)
     /\ r.timestamp < FormatTimestamp(now - arg * MsPerSecond)}

\* C18: every plan of older-than(T) holds, for each file, exactly the
\* file's untagged non-deleted versions with a timestamp before the cutoff;
\* except that when these are all the non-deleted versions of the file, one
\* of them that no other is newer than is left out.
C18_OlderThanPlan ==
  \A arg \in OlderThanArgs :
    \A plan \in GetVersionsForPurgeByAge(versions, tags, now - arg * MsPerSecond) :
      /\ plan \subseteq {r.id : r \in versions}
      /\ \A p \in Paths :
           LET cand == C18_Candidates(p, arg)
               live == {r \in PathRows(versions, p) : ~r.deleted}
               planned == {r \in PathRows(versions, p) : r.id \in plan}
           IN IF cand # {} /\ cand = live
                THEN \E k \in cand :
                       /\ \A x \in cand : x.timestamp <= k.timestamp
                       /\ planned = cand \ {k}
                ELSE planned = cand

\* C18 witness: a file has two non-deleted versions of different
\* timestamps, both untagged.  Under one cutoff both are candidates and a
\* plan keeps the newer and takes the older; under an earlier cutoff only
\* the older is a candidate and a plan takes it.
C18_Witness ==
  \E p \in Paths :
    \E r1, r2 \in PathRows(versions, p) :
      /\ r1.timestamp < r2.timestamp
      /\ {r \in PathRows(versions, p) : ~r.deleted} = {r1, r2}
      /\ \E arg \in OlderThanArgs :
           /\ C18_Candidates(p, arg) = {r1, r2}
           /\ \E plan \in GetVersionsForPurgeByAge(versions, tags, now - arg * MsPerSecond) :
                r1.id \in plan /\ r2.id \notin plan
      /\ \E arg \in OlderThanArgs :
           /\ C18_Candidates(p, arg) = {r1}
           /\ \E plan \in GetVersionsForPurgeByAge(versions, tags, now - arg * MsPerSecond) :
                r1.id \in plan /\ r2.id \notin plan

\* Of the first i entries of the list vs, those in the plan.
C19_Selected(vs, plan, i) == {vs[j] : j \in {x \in 1..i : vs[x].id \in plan}}

\* The plan is what selecting along vs up to entry k gives: an entry is taken
\* unless it is the last non-deleted version its file would keep, the size
\* taken stays below need before entry k, and entry k is the end of the list
\* or the entry that reaches need.
C19_SelectedAlong(vs, plan, k, need) ==
  /\ plan = {r.id : r \in C19_Selected(vs, plan, k)}
  /\ \A i \in 1..k :
       vs[i].id \in plan <=>
         Cardinality({r \in C19_Selected(vs, plan, i - 1) : r.file_path = vs[i].file_path}) + 1
           < Cardinality({r \in versions : r.file_path = vs[i].file_path /\ ~r.deleted})
  /\ \A i \in 1..(k - 1) : SumSize(C19_Selected(vs, plan, i)) < need
  /\ \/ k = Len(vs)
     \/ k >= 1 /\ vs[k].id \in plan /\ SumSize(C19_Selected(vs, plan, k)) >= need

\* C19: a plan of max-size(S) is empty when the non-deleted rows sum to at
\* most S; otherwise it is the selection along the untagged non-deleted
\* versions, oldest timestamp first, that skips a version whose removal would
\* leave its file without a version and ends with the version that brings
\* the selected size to the total minus S.
C19_MaxSizePlan ==
  \A arg \in MaxSizeArgs :
    \A plan \in GetVersionsForPurgeBySize(versions, tags, arg) :
      LET total == SumSize({r \in versions : ~r.deleted})
          cand == {r \in versions : ~r.deleted /\ ~IsTagged(tags, r)}
      IN IF total <= arg THEN plan = {}
         ELSE \E vs \in Perms(cand) :
                /\ \A i, j \in 1..Len(vs) : i < j => vs[i].timestamp <= vs[j].timestamp
                /\ \E k \in 0..Len(vs) : C19_SelectedAlong(vs, plan, k, total - arg)

\* C19 witness: a file has three untagged non-deleted versions.  For one
\* size the plan takes the oldest only and ends there, leaving a version it
\* could have taken; for a smaller size the plan takes two and skips the
\* third, although the size selected is still short; for a third size the
\* plan is empty.
C19_Witness ==
  \E p \in Paths :
    LET live == {r \in PathRows(versions, p) : ~r.deleted}
        total == SumSize({r \in versions : ~r.deleted})
    IN /\ Cardinality(live) = 3
       /\ \A r \in live : ~IsTagged(tags, r)
       /\ \E r1, r2, r3 \in live :
            /\ r1.timestamp < r2.timestamp /\ r2.timestamp <= r3.timestamp
            /\ r2 # r3
            /\ \E arg \in MaxSizeArgs : {r1.id} \in GetVersionsForPurgeBySize(versions, tags, arg)
            /\ \E arg \in MaxSizeArgs :
                 /\ {r1.id, r2.id} \in GetVersionsForPurgeBySize(versions, tags, arg)
                 /\ r1.file_size + r2.file_size < total - arg
            /\ \E arg \in MaxSizeArgs :
                 /\ total <= arg
                 /\ GetVersionsForPurgeBySize(versions, tags, arg) = {{}}

\* C20: after a purge with --max-size S has removed the versions of its
\* plan, the file_size of the remaining non-deleted versions sums to at most
\* S.
C20_TotalWithinMaxSizeAfterPurge ==
  [][\A arg \in MaxSizeArgs :
       \A plan \in GetVersionsForPurgeBySize(versions, tags, arg) :
         (plan # {} /\ versions' = RemoveVersionRows(versions, plan))
           => TotalSize(versions') <= arg]_vars

\* C21: handling a REMOVE event for a path without catalog history changes
\* no row; for a path with history it leaves the set of row ids as it was,
\* leaves every row but the one with the path's highest version_number as it
\* was, leaves that row deleted, leaves the snapshot files as they were, and
\* all_deleted() then lists the path.
C21_RemoveMarksLatestOnly ==
  [][\A p \in Paths :
       /\ PathRows(versions, p) = {} => HandleRemoveRows(versions, p, now) = versions
       /\ (PathRows(versions, p) # {} /\ versions' = HandleRemoveRows(versions, p, now)) =>
            /\ {r.id : r \in versions'} = {r.id : r \in versions}
            /\ Cardinality(versions') = Cardinality(versions)
            /\ \A r \in versions :
                 (\E q \in PathRows(versions, p) : q.version_number > r.version_number)
                   \/ r.file_path # p
                   => r \in versions'
            /\ \A r \in PathRows(versions', p) :
                 (\A q \in PathRows(versions', p) : q.version_number <= r.version_number)
                   => r.deleted
            /\ store' = store
            /\ p \in {r.file_path : r \in GetAllDeletedFiles(versions')}]_vars

\* C21 witness: a file has an older version that is not deleted and a latest
\* version that a REMOVE event marked deleted, with its snapshot in the
\* store, and all_deleted() lists the file.
C21_Witness ==
  \E p \in Paths :
    \E r1, r2 \in PathRows(versions, p) :
      /\ r1.version_number < r2.version_number
      /\ ~r1.deleted
      /\ r2.deleted
      /\ r2 \in GetLatestFileVersion(versions, p)
      /\ r2.storage_path \in DOMAIN store
      /\ p \in {r.file_path : r \in GetAllDeletedFiles(versions)}
      /\ \E q \in Paths : PathRows(versions, q) = {}

\* C22: a rollback of a file to version N returns an error and leaves the
\* working file, the catalog and the snapshot store as they were when the
\* file has no version N, version N is deleted, N is the number of the
\* latest version, or the file is not on disk.
C22_FailedRollbackChangesNothing ==
  [][\A p \in Paths : \A n \in 1..MaxCaptures :
       (/\ rb.pc = "idle"
        /\ rb' # rb
        /\ rb'.path = p
        /\ rb'.version = n
        /\ \/ ~\E r \in versions : r.file_path = p /\ r.version_number = n
           \/ \E r \in versions : r.file_path = p /\ r.version_number = n /\ r.deleted
           \/ n = Max({r.version_number : r \in PathRows(versions, p)} \cup {0})
           \/ p \notin DOMAIN fs)
       => /\ rb'.result = "error"
          /\ rb'.pc = "idle"
          /\ fs' = fs
          /\ versions' = versions
          /\ store' = store]_vars

\* C22 witness: a rollback to the number of the latest version has returned
\* an error while the file on disk differs from that version, and nothing
\* was saved for it.
C22_Witness ==
  /\ rb.pc = "idle"
  /\ rb.result = "error"
  /\ rb.path \in DOMAIN fs
  /\ \E r \in GetLatestFileVersion(versions, rb.path) :
       /\ r.version_number = rb.version
       /\ ~r.deleted
       /\ r.file_hash # CalculateFileHash(fs[rb.path])
       /\ Cardinality(PathRows(versions, rb.path)) >= 2

\* C23: restore of a file succeeds only when the row with the file's
\* highest version_number is deleted; when that row is not deleted or the
\* file has no row, restore fails and leaves the catalog and the working
\* tree as they are.
C23_RestoreNeedsTombstone ==
  \A p \in Paths :
    LET res == RestoreSpecificFile(versions, store, fs, p, now)
        top == {r \in versions :
                  /\ r.file_path = p
                  /\ \A q \in versions : q.file_path = p => q.version_number <= r.version_number}
    IN /\ res.ok => \E r \in top : r.deleted
       /\ (top = {} \/ \E r \in top : ~r.deleted) =>
            /\ ~res.ok
            /\ res.rows = versions
            /\ res.tree = fs

\* C23 witness: a file's latest version is not deleted, is older than the
\* current second and its snapshot differs from the file on disk, while an
\* older version of the file is deleted; another file has no history.
C23_Witness ==
  /\ \E p \in Paths :
       /\ p \in DOMAIN fs
       /\ \E r \in GetLatestFileVersion(versions, p) :
            /\ ~r.deleted
            /\ r.timestamp # FormatTimestamp(now)
            /\ r.storage_path \in DOMAIN store
            /\ store[r.storage_path] # fs[p]
       /\ \E r \in PathRows(versions, p) : r.deleted
  /\ \E p \in Paths : PathRows(versions, p) = {}

\* C24: AddTag of a tag name to version n of a file leaves the tags table
\* as it is when the file has no version n, when version n is deleted, and
\* when version n already has a tag of that name.
C24_AddTagRejected ==
  \A p \in Paths : \A n \in 1..MaxCaptures : \A name \in TagNames :
    (\/ ~\E r \in versions : r.file_path = p /\ r.version_number = n
     \/ \E r \in versions : r.file_path = p /\ r.version_number = n /\ r.deleted
     \/ \E r \in versions : \E t \in tags :
          /\ r.file_path = p /\ r.version_number = n
          /\ t.version_id = r.id /\ t.tag_name = name)
    => /\ ~AddTagAllowed(versions, tags, p, n, name)
       /\ AddTag(versions, tags, p, n, name, now) = tags

\* C24 witness: a file has a version tagged in an earlier second and not
\* deleted, a deleted version, and a version number it never had.
C24_Witness ==
  \E p \in Paths :
    /\ \E r \in PathRows(versions, p) : \E t \in tags :
         /\ ~r.deleted
         /\ t.version_id = r.id
         /\ t.created_at # FormatTimestamp(now)
    /\ \E r \in PathRows(versions, p) : r.deleted
    /\ \E n \in 1..MaxCaptures : GetFileVersion(versions, p, n) = {}

\* C25: for every file and tag name at most one version of the file that is
\* not deleted has the tag, so that GetVersionByTag has one possible result
\* at most.
C25_TagNamesOneVersionPerFile ==
  \A p \in Paths : \A name \in TagNames :
    Cardinality(GetVersionByTag(versions, tags, p, name)) <= 1

\* C26: an add of a path that is already registered, does not exist, is no
\* directory, cannot be read or holds no .rewind directory is answered with
\* a failure and leaves the in-memory list and watchlist.json as they were.
C26_RejectedAddChangesNothing ==
  [][(/\ isRunning
      /\ msgChan # <<>>
      /\ msgChan' = Tail(msgChan)
      /\ conns[Head(msgChan)].req.action = "add"
      /\ LET p == conns[Head(msgChan)].req.path IN
            \/ p \in DOMAIN watches
            \/ p \in watchlistFile
            \/ PathKind(p) \in {"missing", "file", "unreadable", "no-rewind"})
     => /\ watches' = watches
        /\ watchlistFile' = watchlistFile
        /\ conns'[Head(msgChan)].resp = <<JsonResponse(FALSE)>>]_vars

\* The project is registered and a second add of it was answered with a
\* failure.
C26_Witness ==
  /\ ProjectPath \in DOMAIN watches
  /\ ProjectPath \in watchlistFile
  /\ \E c \in 1..NumConns :
        /\ conns[c].req = [action |-> "add", path |-> ProjectPath]
        /\ conns[c].resp = <<JsonResponse(FALSE)>>

\* C27: once a remove of the project has been answered with success (and
\* the project was not added again), the project is in neither list, the
\* notifier holds no subscription for any of its directories, and no event
\* raised after the removal is in its catalog.
C27_RemovedProjectIsQuiet ==
  removedDone =>
    /\ ProjectPath \notin DOMAIN watches
    /\ ProjectPath \notin watchlistFile
    /\ \A d \in {RootDir, SubDir} : <<ProjectPath, d>> \notin subs
    /\ \A e \in ctlCatalog : ~e.late

\* C28: once a request with action stop has been processed (its response
\* is written), the engine is shut down: is_running is false.
C28_StopShutsEngineDown ==
  \A c \in 1..NumConns :
    (/\ conns[c].req # <<>>
     /\ conns[c].req.action = "stop"
     /\ \E i \in DOMAIN conns[c].resp : conns[c].resp[i].json)
      => ~isRunning

\* C29: a connection whose request was read and that the server has closed
\* carries exactly one response, and that response is a {success, message}
\* JSON object, whatever the action and however full the message queue.
C29_OneJsonResponseThenClose ==
  \A c \in 1..NumConns :
    (conns[c].pc = "closed" /\ conns[c].req.action # "<eof>")
      => (Len(conns[c].resp) = 1 /\ conns[c].resp[1].json)

\* The patterns and paths of TestWatch_ShouldIgnore.
C30_TestPatterns ==
  {[glob |-> <<<<".git", "">>>>, dir |-> TRUE],
   [glob |-> <<<<".rwignore", "">>>>, dir |-> FALSE],
   [glob |-> <<<<"*", "tmp">>>>, dir |-> FALSE]}

C30_TestVectors ==
  /\ ShouldIgnore(<<<<".git", "">>, <<"config", "">>>>, C30_TestPatterns)
  /\ ShouldIgnore(<<<<".rwignore", "">>>>, C30_TestPatterns)
  /\ ShouldIgnore(<<<<"something", "tmp">>>>, C30_TestPatterns)
  /\ ~ShouldIgnore(<<<<"readme", "txt">>>>, C30_TestPatterns)

\* A pattern ending with "/" matches when a component matches its glob or
\* the path starts with it; any other pattern matches when it globs the
\* base name, the whole relative path or a single component.
C30_PatternMatches(pat, rel) ==
  IF pat.dir
    THEN \/ \E i \in 1..Len(rel) : MatchGlob(pat.glob, <<rel[i]>>)
         \/ HasPrefix(rel, pat.glob)
    ELSE \/ MatchGlob(pat.glob, <<rel[Len(rel)]>>)
         \/ MatchGlob(pat.glob, rel)
         \/ \E i \in 1..Len(rel) : MatchGlob(pat.glob, <<rel[i]>>)

\* C30: the daemon ignores the path of an event exactly when one of the
\* loaded patterns matches its relative path: a matched path changes
\* neither the catalog nor the subscriptions, an unmatched new directory
\* is subscribed and an unmatched file without a row is captured; the
\* paths of the test are ignored or not as the test expects.
C30_IgnoredExactlyWhenPatternMatches ==
  [][(running /\ running' /\ fsEvents # <<>> /\ fsEvents' = Tail(fsEvents)) =>
       LET ev == Head(fsEvents)
           m == \E pat \in ignorePatterns : C30_PatternMatches(pat, ev.name) IN
         /\ C30_TestVectors
         /\ m => (versions' = versions /\ watchDirs' = watchDirs)
         /\ (~m /\ ev.name \in dirs /\ ev.op = "CREATE") => ev.name \in watchDirs'
         /\ (~m /\ ev.name \in DOMAIN fs /\ PathRows(versions, ev.name) = {}
                /\ nextId <= MaxCaptures)
              => PathRows(versions', ev.name) # {}]_vars

\* C30 witness: with "*.tmp" and "src/build" loaded and all events
\* handled, foo.tmp has no row and src/build is not subscribed, while
\* a.txt was captured and src is subscribed.
C30_Witness ==
  /\ running
  /\ fsEvents = <<>>
  /\ lateFiles = {}
  /\ \E pat \in ignorePatterns : C30_PatternMatches(pat, <<TmpFile>>)
  /\ \E pat \in ignorePatterns : C30_PatternMatches(pat, <<SrcDir, BuildDir>>)
  /\ ~\E pat \in ignorePatterns : C30_PatternMatches(pat, <<TxtFile>>)
  /\ {<<TmpFile>>, <<TxtFile>>} \subseteq DOMAIN fs
  /\ PathRows(versions, <<TmpFile>>) = {}
  /\ PathRows(versions, <<TxtFile>>) # {}
  /\ {<<SrcDir>>, <<SrcDir, BuildDir>>} \subseteq dirs
  /\ <<SrcDir>> \in watchDirs
  /\ <<SrcDir, BuildDir>> \notin watchDirs

\* Every worker is outside ProcessFile.
NoCaptureRunning == \A w \in Workers : cap[w].pc = "idle"

\* C31: captures of one file that run side by side are serialized: none of
\* them fails at its INSERT because the other took the version number it
\* had computed, and the numbers of the file's rows are 1..k.
C31_ConcurrentCapturesSerialized ==
  /\ \A w \in Workers : cap[w].result # "error-insert"
  /\ \A p \in Paths :
        {r.version_number : r \in PathRows(versions, p)} =
          1..Cardinality(PathRows(versions, p))

\* C32: whenever no capture is running, the files of the snapshot store are
\* exactly the storage_paths of the catalog's rows: no snapshot file
\* without a row and no row without its snapshot file, also after a copy
\* or an insert that failed.
C32_StoreEqualsCatalog ==
  NoCaptureRunning => DOMAIN store = {r.storage_path : r \in versions}

\* C33: while the daemon runs and every event is handled, the directories
\* in Watch.WatchDirs are the root and exactly the existing directories
\* below it that the walk of prepareWatch would reach, whatever directories
\* were created (nested ones too) or removed before.
C33_WatchDirsTrackTree ==
  (running /\ fsEvents = <<>>) =>
    watchDirs = DiscoverWatchDirectories(dirs, ignorePatterns)

\* C34: Watch.WatchDirs never holds the .rewind directory or a directory
\* inside it, nor a directory that the loaded ignore patterns match, nor a
\* directory below one they match -- whether prepareWatch put it there or
\* a CREATE event.
C34_WatchDirsExcludeIgnored ==
  \A d \in watchDirs :
    /\ d \notin StoreDirs
    /\ \A i \in 1..Len(d) : ~ShouldIgnore(SubSeq(d, 1, i), ignorePatterns)

\* C34 witness: with "build/" loaded and all events handled, src is
\* subscribed while build and src/build, which exist, are not.
C34_Witness ==
  /\ running
  /\ fsEvents = <<>>
  /\ [glob |-> <<BuildDir>>, dir |-> TRUE] \in ignorePatterns
  /\ {<<SrcDir>>, <<BuildDir>>, <<SrcDir, BuildDir>>} \subseteq dirs
  /\ <<SrcDir>> \in watchDirs
  /\ <<BuildDir>> \notin watchDirs
  /\ <<SrcDir, BuildDir>> \notin watchDirs

\* C35: the registry is under a reader-writer lock: while handleEvent is
\* inside AddWatchDirectory, between its append to WatchDirs and its
\* subscription, the control worker processes no add, remove or status
\* request.
C35_RegistryAccessesExcluded ==
  [][(handler.pc = "appended" /\ msgChan # <<>> /\ msgChan' = Tail(msgChan))
       => conns[Head(msgChan)].req.action \notin {"add", "remove", "status"}]_vars

\* C36: no event callback ever sends on EventChan after Stop closed it.
C36_NoSendOnClosedChannel ==
  ~sd.sentOnClosed

\* C39: after every add or remove of the control worker, successful or
\* not, watchlist.json lists exactly the paths of the in-memory registry.
C39_WatchlistFileEqualsRegistry ==
  watchlistFile = DOMAIN watches

C38_TagsOnLiveVersions ==
  \A t \in tags : \E r \in versions : r.id = t.version_id /\ ~r.deleted

\* C40: a restore of a deleted file that fails while the snapshot is
\* copied back leaves the tombstone: after a step that starts with the
\* file's latest row deleted and ends with the file still missing from the
\* working tree, the latest row is still deleted.
C40_FailedRestoreKeepsTombstone ==
  [][\A p \in MainPaths :
       (RestoreAllowed(versions, p) /\ p \notin DOMAIN fs /\ p \notin DOMAIN fs')
         => RestoreAllowed(versions', p)]_vars
====
